---------------------------- MODULE Spec2Model ----------------------------
(***************************************************************************)
(* Model of the geometric-transform kernel (math.rs), the axis-aligned     *)
(* rectangle (polygon.rs) and the shadow frustum fit (main.rs).            *)
(*                                                                         *)
(* Numbers.  The code computes in f32.  The kernel is modelled in exact    *)
(* integer arithmetic; the frustum fit, which divides, in exact rational   *)
(* arithmetic (a pair <<numerator, denominator>>).  Angles are counted in  *)
(* quarter turns, so that cos and sin are the exact pairs (1,0), (0,1),    *)
(* (-1,0), (0,-1).  Rounding is not modelled.                              *)
(***************************************************************************)
EXTENDS Integers, Sequences, FiniteSets, TLC

VARIABLES
    op,          \* the operation applied last ("init": none yet)
    a, b, c,     \* Affine3 operands
    v,           \* Vector3 operand
    scale, rotation, translation,  \* the arguments of Affine3::from
    theta, plane, \* an angle (in quarter turns) and a unit BiVector3
    r1, r2, r3,  \* Rotor operands
    camera,      \* struct Camera
    light,       \* struct Light
    fit,         \* the Option returned by compute_camera_fit_on_light_plane
    cut_corners, \* its local cut_corners[..cut_corners_len] at the return
    reached,     \* the Rect functions it called
    input,       \* struct InputState (a bitmask is the set of its keys)
    shadow_fit,  \* whether the fit is applied to the light's view
    light_buffer, \* the view of the LightRaw written to light_buffer
    shadow_pass, \* whether the last frame recorded the shadow pass
    frames,      \* the number of frames drawn
    rect1, \* a Rect
    rect2, \* another Rect
    points, \* the points slice of graham_scan
    indices_on_hull, \* its index buffer (0-based)
    hull, \* what graham_scan did (panic) and the count it returned
    convex_p, \* a convex polygon
    convex_q, \* another convex polygon
    convex_r, \* the Vec convex_intersect_alloc returned
    no_alloc, \* what convex_intersect_no_alloc did (panic), returned (len) and wrote (convex_r)
    lhs, rhs     \* the two results an operation leaves behind

composeVars == <<a, b, c, v>>
fromVars == <<scale, rotation, translation, theta, plane>>
rotorVars == <<r1, r2, r3>>
fitVars == <<camera, light, fit, cut_corners, reached>>
frameVars == <<input, shadow_fit, light_buffer, shadow_pass, frames>>
rectVars == <<rect1, rect2>>
hullVars == <<points, indices_on_hull, hull>>
convexVars == <<convex_p, convex_q, convex_r, no_alloc>>

vars == <<op, composeVars, fromVars, rotorVars, fitVars, frameVars, rectVars, hullVars, convexVars, lhs, rhs>>

(***************************************************************************)
(* Bounds of the model.                                                    *)
(***************************************************************************)
MaxCoord == 2        \* components of the operands lie in -MaxCoord..MaxCoord
NumAffines == 7      \* number of sampled Affine3 operands
NumRotors == 7       \* number of sampled Rotor operands
MaxTurns == 4        \* angles lie in -MaxTurns..MaxTurns quarter turns
MaxPos == 2          \* the camera's translation.z lies in -MaxPos..MaxPos
MaxRect == 3         \* the coordinates of the Rect operands lie in 0..MaxRect
MaxGrid == 2         \* the points of graham_scan lie in (0..MaxGrid) x (0..MaxGrid)
MaxPoints == 5       \* graham_scan is given 3..MaxPoints points
MaxShift == 2        \* the second polygon is shifted by -MaxShift..MaxShift on each axis
MaxFrames == 2       \* the frame loop is followed for MaxFrames frames

Base == 2 * MaxCoord + 1
Coords == (0 - MaxCoord)..MaxCoord

(***************************************************************************)
(* math.rs: Vector3, Scale3, BiVector3, Rotor, Affine3                     *)
(***************************************************************************)
Vector3_new(x, y, z) == [x |-> x, y |-> y, z |-> z]

Vector3_IDENTITY == Vector3_new(0, 0, 0)

Scale3_new(x, y, z) == [x |-> x, y |-> y, z |-> z]

BiVector3_new(xy, yz, zx) == [xy |-> xy, yz |-> yz, zx |-> zx]

Vector3_neg(self) == Vector3_new(0 - self.x, 0 - self.y, 0 - self.z)

Affine3_IDENTITY ==
    [xx |-> 1, yx |-> 0, zx |-> 0, _x |-> 0,
     xy |-> 0, yy |-> 1, zy |-> 0, _y |-> 0,
     xz |-> 0, yz |-> 0, zz |-> 1, _z |-> 0]

\* Mutant of Affine3_compose: the operands are taken in the other order
\* (other then self).
Affine3_compose_reversed(self, other) ==
    [xx |-> other.xx * self.xx + other.xy * self.yx + other.xz * self.zx,
     yx |-> other.yx * self.xx + other.yy * self.yx + other.yz * self.zx,
     zx |-> other.zx * self.xx + other.zy * self.yx + other.zz * self.zx,
     _x |-> other._x * self.xx + other._y * self.yx + other._z * self.zx + self._x,
     xy |-> other.xx * self.xy + other.xy * self.yy + other.xz * self.zy,
     yy |-> other.yx * self.xy + other.yy * self.yy + other.yz * self.zy,
     zy |-> other.zx * self.xy + other.zy * self.yy + other.zz * self.zy,
     _y |-> other._x * self.xy + other._y * self.yy + other._z * self.zy + self._y,
     xz |-> other.xx * self.xz + other.xy * self.yz + other.xz * self.zz,
     yz |-> other.yx * self.xz + other.yy * self.yz + other.yz * self.zz,
     zz |-> other.zx * self.xz + other.zy * self.yz + other.zz * self.zz,
     _z |-> other._x * self.xz + other._y * self.yz + other._z * self.zz + self._z]

\* Mutant of Affine3_compose: one index of the first entry is transposed
\* (other.xz for other.zx).
Affine3_compose_transposed_index(self, other) ==
    [xx |-> self.xx * other.xx + self.xy * other.yx + self.xz * other.xz,
     yx |-> self.yx * other.xx + self.yy * other.yx + self.yz * other.zx,
     zx |-> self.zx * other.xx + self.zy * other.yx + self.zz * other.zx,
     _x |-> self._x * other.xx + self._y * other.yx + self._z * other.zx + other._x,
     xy |-> self.xx * other.xy + self.xy * other.yy + self.xz * other.zy,
     yy |-> self.yx * other.xy + self.yy * other.yy + self.yz * other.zy,
     zy |-> self.zx * other.xy + self.zy * other.yy + self.zz * other.zy,
     _y |-> self._x * other.xy + self._y * other.yy + self._z * other.zy + other._y,
     xz |-> self.xx * other.xz + self.xy * other.yz + self.xz * other.zz,
     yz |-> self.yx * other.xz + self.yy * other.yz + self.yz * other.zz,
     zz |-> self.zx * other.xz + self.zy * other.yz + self.zz * other.zz,
     _z |-> self._x * other.xz + self._y * other.yz + self._z * other.zz + other._z]

\* Mutant of Affine3_compose: the translation of other is not added.
Affine3_compose_no_translation(self, other) ==
    [xx |-> self.xx * other.xx + self.xy * other.yx + self.xz * other.zx,
     yx |-> self.yx * other.xx + self.yy * other.yx + self.yz * other.zx,
     zx |-> self.zx * other.xx + self.zy * other.yx + self.zz * other.zx,
     _x |-> self._x * other.xx + self._y * other.yx + self._z * other.zx,
     xy |-> self.xx * other.xy + self.xy * other.yy + self.xz * other.zy,
     yy |-> self.yx * other.xy + self.yy * other.yy + self.yz * other.zy,
     zy |-> self.zx * other.xy + self.zy * other.yy + self.zz * other.zy,
     _y |-> self._x * other.xy + self._y * other.yy + self._z * other.zy,
     xz |-> self.xx * other.xz + self.xy * other.yz + self.xz * other.zz,
     yz |-> self.yx * other.xz + self.yy * other.yz + self.yz * other.zz,
     zz |-> self.zx * other.xz + self.zy * other.yz + self.zz * other.zz,
     _z |-> self._x * other.xz + self._y * other.yz + self._z * other.zz]

\* (A, a) * (B, b) = (A * B, a * B + b)
Affine3_compose(self, other) ==
    [xx |-> self.xx * other.xx + self.xy * other.yx + self.xz * other.zx,
     yx |-> self.yx * other.xx + self.yy * other.yx + self.yz * other.zx,
     zx |-> self.zx * other.xx + self.zy * other.yx + self.zz * other.zx,
     _x |-> self._x * other.xx + self._y * other.yx + self._z * other.zx + other._x,
     xy |-> self.xx * other.xy + self.xy * other.yy + self.xz * other.zy,
     yy |-> self.yx * other.xy + self.yy * other.yy + self.yz * other.zy,
     zy |-> self.zx * other.xy + self.zy * other.yy + self.zz * other.zy,
     _y |-> self._x * other.xy + self._y * other.yy + self._z * other.zy + other._y,
     xz |-> self.xx * other.xz + self.xy * other.yz + self.xz * other.zz,
     yz |-> self.yx * other.xz + self.yy * other.yz + self.yz * other.zz,
     zz |-> self.zx * other.xz + self.zy * other.yz + self.zz * other.zz,
     _z |-> self._x * other.xz + self._y * other.yz + self._z * other.zz + other._z]

Vector3_apply(self, t) ==
    Vector3_new(self.x * t.xx + self.y * t.yx + self.z * t.zx + t._x,
                self.x * t.xy + self.y * t.yy + self.z * t.zy + t._y,
                self.x * t.xz + self.y * t.yz + self.z * t.zz + t._z)

\* Mutant of Affine3_scale: the accumulated translation is left alone.
Affine3_scale_linear_part(self, s) ==
    [xx |-> self.xx * s.x, yx |-> self.yx * s.x, zx |-> self.zx * s.x, _x |-> self._x,
     xy |-> self.xy * s.y, yy |-> self.yy * s.y, zy |-> self.zy * s.y, _y |-> self._y,
     xz |-> self.xz * s.z, yz |-> self.yz * s.z, zz |-> self.zz * s.z, _z |-> self._z]

Affine3_scale(self, s) ==
    [xx |-> self.xx * s.x, yx |-> self.yx * s.x, zx |-> self.zx * s.x, _x |-> self._x * s.x,
     xy |-> self.xy * s.y, yy |-> self.yy * s.y, zy |-> self.zy * s.y, _y |-> self._y * s.y,
     xz |-> self.xz * s.z, yz |-> self.yz * s.z, zz |-> self.zz * s.z, _z |-> self._z * s.z]

Affine3_translate(self, t) ==
    [self EXCEPT !._x = self._x + t.x, !._y = self._y + t.y, !._z = self._z + t.z]

\* f32::cos and f32::sin of an angle of k quarter turns.
Cos(k) == CASE k % 4 = 0 -> 1 [] k % 4 = 1 -> 0 [] k % 4 = 2 -> 0 - 1 [] OTHER -> 0

Sin(k) == CASE k % 4 = 0 -> 0 [] k % 4 = 1 -> 1 [] k % 4 = 2 -> 0 [] OTHER -> 0 - 1

\* f32::sqrt, on the perfect squares the operands produce.
Sqrt(n) == CHOOSE r \in 0..n : r * r = n

\* The result of the f32 division 0.0 / 0.0, a value outside every range
\* the operands are drawn from; it absorbs multiplication.
NaN == 0 - 10007

F32_div(x, y) == IF y = 0 \/ x = NaN \/ y = NaN THEN NaN ELSE x \div y

F32_mul(x, y) == IF x = NaN \/ y = NaN THEN NaN ELSE x * y

\* assumes normalized plane
Affine3_rotate(self, angle, bv) ==
    LET zx_yz == bv.zx * bv.yz
        yz_xy == bv.yz * bv.xy
        xy_zx == bv.xy * bv.zx
        yz_yz == bv.yz * bv.yz
        zx_zx == bv.zx * bv.zx
        xy_xy == bv.xy * bv.xy
        cos == Cos(angle)
        sin == Sin(angle)
        one_sub_cos == 1 - cos
        yz_sin == bv.yz * sin
        zx_sin == bv.zx * sin
        xy_sin == bv.xy * sin
        zx_yz_one_sub_cos == zx_yz * one_sub_cos
        yz_xy_one_sub_cos == yz_xy * one_sub_cos
        xy_zx_one_sub_cos == xy_zx * one_sub_cos
        xx == (1 - yz_yz) * cos + yz_yz
        xy == zx_yz_one_sub_cos + xy_sin
        xz == yz_xy_one_sub_cos - zx_sin
        yx == zx_yz_one_sub_cos - xy_sin
        yy == (1 - zx_zx) * cos + zx_zx
        yz == xy_zx_one_sub_cos + yz_sin
        zx == yz_xy_one_sub_cos + zx_sin
        zy == xy_zx_one_sub_cos - yz_sin
        zz == (1 - xy_xy) * cos + xy_xy
    IN  [xx |-> self.xx * xx + self.xy * yx + self.xz * zx,
         yx |-> self.yx * xx + self.yy * yx + self.yz * zx,
         zx |-> self.zx * xx + self.zy * yx + self.zz * zx,
         _x |-> self._x * xx + self._y * yx + self._z * zx,
         xy |-> self.xx * xy + self.xy * yy + self.xz * zy,
         yy |-> self.yx * xy + self.yy * yy + self.yz * zy,
         zy |-> self.zx * xy + self.zy * yy + self.zz * zy,
         _y |-> self._x * xy + self._y * yy + self._z * zy,
         xz |-> self.xx * xz + self.xy * yz + self.xz * zz,
         yz |-> self.yx * xz + self.yy * yz + self.yz * zz,
         zz |-> self.zx * xz + self.zy * yz + self.zz * zz,
         _z |-> self._x * xz + self._y * yz + self._z * zz]

\* Mutant of Affine3_from: the scale multiplies the columns (the outputs)
\* instead of the rows (the inputs), i.e. the rotation is applied first.
Affine3_from_scale_columns(s, r, t) ==
    LET s1zx == r.scalar * r.zx
        s1xy == r.scalar * r.xy
        s1yz == r.scalar * r.yz
        zxzx == r.zx * r.zx
        zxxy == r.zx * r.xy
        xyxy == r.xy * r.xy
        zxyz == r.yz * r.zx
        yzxy == r.yz * r.xy
        yzyz == r.yz * r.yz
    IN  [xx |-> (1 - 2 * (zxzx + xyxy)) * s.x,
         xy |-> (2 * (zxyz + s1xy)) * s.y,
         xz |-> (2 * (yzxy - s1zx)) * s.z,
         yx |-> (2 * (zxyz - s1xy)) * s.x,
         yy |-> (1 - 2 * (yzyz + xyxy)) * s.y,
         yz |-> (2 * (zxxy + s1yz)) * s.z,
         zx |-> (2 * (yzxy + s1zx)) * s.x,
         zy |-> (2 * (zxxy - s1yz)) * s.y,
         zz |-> (1 - 2 * (yzyz + zxzx)) * s.z,
         _x |-> t.x,
         _y |-> t.y,
         _z |-> t.z]

\* rotations are done with left to right notation
\* V x B --> V o exp(x B) = ~R * V * R where R = exp(1/2 * B)
Affine3_from(s, r, t) ==
    LET s1zx == r.scalar * r.zx
        s1xy == r.scalar * r.xy
        s1yz == r.scalar * r.yz
        zxzx == r.zx * r.zx
        zxxy == r.zx * r.xy
        xyxy == r.xy * r.xy
        zxyz == r.yz * r.zx
        yzxy == r.yz * r.xy
        yzyz == r.yz * r.yz
    IN  [xx |-> (1 - 2 * (zxzx + xyxy)) * s.x,
         xy |-> (2 * (zxyz + s1xy)) * s.x,
         xz |-> (2 * (yzxy - s1zx)) * s.x,
         yx |-> (2 * (zxyz - s1xy)) * s.y,
         yy |-> (1 - 2 * (yzyz + xyxy)) * s.y,
         yz |-> (2 * (zxxy + s1yz)) * s.y,
         zx |-> (2 * (yzxy + s1zx)) * s.z,
         zy |-> (2 * (zxxy - s1yz)) * s.z,
         zz |-> (1 - 2 * (yzyz + zxzx)) * s.z,
         _x |-> t.x,
         _y |-> t.y,
         _z |-> t.z]

Scale3_IDENTITY == Vector3_new(1, 1, 1)

Rotor_new(scalar, xy, yz, zx) == [scalar |-> scalar, xy |-> xy, yz |-> yz, zx |-> zx]

Rotor_IDENTITY == Rotor_new(1, 0, 0, 0)

Rotor_norm_sqr(self) ==
    self.scalar * self.scalar + self.xy * self.xy + self.yz * self.yz + self.zx * self.zx

\* Mutant of Rotor_mul: the scalar of the right operand does not reach the
\* bivector part (the terms self.xy * other.scalar, ... are missing).
Rotor_mul_no_right_scalar(self, other) ==
    Rotor_new(
        self.scalar * other.scalar - self.xy * other.xy - self.yz * other.yz - self.zx * other.zx,
        self.scalar * other.xy + self.yz * other.zx - self.zx * other.yz,
        self.scalar * other.yz - self.xy * other.zx + self.zx * other.xy,
        self.scalar * other.zx + self.yz * other.xy - self.xy * other.yz)

\* impl Mul for Rotor ("not sure if the signs are right")
Rotor_mul(self, other) ==
    Rotor_new(
        self.scalar * other.scalar - self.xy * other.xy - self.yz * other.yz - self.zx * other.zx,
        self.scalar * other.xy + self.xy * other.scalar + self.yz * other.zx - self.zx * other.yz,
        self.scalar * other.yz - self.xy * other.zx + self.yz * other.scalar + self.zx * other.xy,
        self.scalar * other.zx + self.yz * other.xy - self.xy * other.yz + self.zx * other.scalar)

BiVector3_norm_sqr(self) ==
    self.xy * self.xy + self.yz * self.yz + self.zx * self.zx

\* impl Mul<f32> for BiVector3
BiVector3_mul(self, k) ==
    BiVector3_new(F32_mul(self.xy, k), F32_mul(self.yz, k), F32_mul(self.zx, k))

\* impl Div<f32> for BiVector3
BiVector3_div(self, k) ==
    BiVector3_new(F32_div(self.xy, k), F32_div(self.yz, k), F32_div(self.zx, k))

\* Mutant of BiVector3_exp: the zero norm is not returned early.
BiVector3_exp_no_early_return(self) ==
    LET norm_sqr == BiVector3_norm_sqr(self)
        nrm == Sqrt(norm_sqr)
        cos == Cos(nrm)
        unit == BiVector3_mul(BiVector3_div(self, nrm), Sin(nrm))
    IN  Rotor_new(cos, unit.xy, unit.yz, unit.zx)

\* Mutant of BiVector3_exp: the rotor of the full angle is built from the
\* half-angle formulas (cos and sin of twice the norm).
BiVector3_exp_double_angle(self) ==
    LET norm_sqr == BiVector3_norm_sqr(self)
        nrm == Sqrt(norm_sqr)
        cos == Cos(2 * nrm)
        unit == BiVector3_mul(BiVector3_div(self, nrm), Sin(2 * nrm))
    IN  IF norm_sqr = 0
        THEN Rotor_IDENTITY
        ELSE Rotor_new(cos, unit.xy, unit.yz, unit.zx)

\* In R3 the biVector squares to a negative scalar, hence we can factor the
\* BiVector to a scalar and unit biVector.  The BiVector is counted in
\* quarter turns, like the angles.
BiVector3_exp(self) ==
    LET norm_sqr == BiVector3_norm_sqr(self)
        nrm == Sqrt(norm_sqr)
        cos == Cos(nrm)
        unit == BiVector3_mul(BiVector3_div(self, nrm), Sin(nrm))
    IN  IF norm_sqr = 0
        THEN Rotor_IDENTITY
        ELSE Rotor_new(cos, unit.xy, unit.yz, unit.zx)

(***************************************************************************)
(* f32 values that come out of a division: exact rationals <<n, d>> in     *)
(* lowest terms with d > 0; <<1, 0>> and <<-1, 0>> are the infinities and  *)
(* <<0, 0>> is NaN, the results of a division by zero.                     *)
(***************************************************************************)
Abs(x) == IF x < 0 THEN 0 - x ELSE x

Sign(x) == IF x > 0 THEN 1 ELSE IF x < 0 THEN 0 - 1 ELSE 0

RECURSIVE GCD(_, _)
GCD(x, y) == IF y = 0 THEN x ELSE GCD(y, x % y)

Rat(n, d) ==
    IF d = 0
    THEN <<Sign(n), 0>>
    ELSE LET g == GCD(Abs(n), Abs(d))
         IN  <<(Sign(d) * n) \div g, (Sign(d) * d) \div g>>

Q(n) == <<n, 1>>

Q_is_nan(p) == p = <<0, 0>>

\* (whole numbers are added, subtracted and multiplied as such)
Q_add(p, q) ==
    IF p[2] = 1 /\ q[2] = 1 THEN <<p[1] + q[1], 1>>
    ELSE Rat(p[1] * q[2] + q[1] * p[2], p[2] * q[2])

Q_sub(p, q) ==
    IF p[2] = 1 /\ q[2] = 1 THEN <<p[1] - q[1], 1>>
    ELSE Rat(p[1] * q[2] - q[1] * p[2], p[2] * q[2])

Q_mul(p, q) ==
    IF p[2] = 1 /\ q[2] = 1 THEN <<p[1] * q[1], 1>>
    ELSE Rat(p[1] * q[1], p[2] * q[2])

Q_div(p, q) == Rat(p[1] * q[2], p[2] * q[1])

Q_neg(p) == <<0 - p[1], p[2]>>

\* p < q; false when either is NaN.
Q_lt(p, q) ==
    IF p[2] = 1 /\ q[2] = 1 THEN p[1] < q[1]
    ELSE /\ ~Q_is_nan(p)
         /\ ~Q_is_nan(q)
         /\ IF p[2] = 0 /\ q[2] = 0 THEN p[1] < q[1] ELSE p[1] * q[2] < q[1] * p[2]

\* p <= q; false when either is NaN.
Q_le(p, q) == ~Q_is_nan(p) /\ ~Q_is_nan(q) /\ ~Q_lt(q, p)

\* f32::min and f32::max: the other operand when one is NaN.
Q_min(p, q) == IF Q_is_nan(p) THEN q ELSE IF Q_is_nan(q) THEN p ELSE IF Q_lt(q, p) THEN q ELSE p

Q_max(p, q) == IF Q_is_nan(p) THEN q ELSE IF Q_is_nan(q) THEN p ELSE IF Q_lt(p, q) THEN q ELSE p

\* An f32 division whose operands the model draws so that it is exact.
ExactDiv(x, y) == x \div y

(***************************************************************************)
(* math.rs: Vector2, Scale2                                                *)
(***************************************************************************)
Vector2_new(x, y) == [x |-> x, y |-> y]

Vector2_IDENTITY == Vector2_new(Q(0), Q(0))

Scale2_new(x, y) == [x |-> x, y |-> y]

Vector2_neg(self) == Vector2_new(Q_neg(self.x), Q_neg(self.y))

Vector2_mul(self, k) == Vector2_new(Q_mul(self.x, k), Q_mul(self.y, k))

Vector3_wedge(self, other) ==
    BiVector3_new(self.x * other.y - self.y * other.x,
                  self.y * other.z - self.z * other.y,
                  self.z * other.x - self.x * other.z)

(***************************************************************************)
(* polygon.rs: Rect                                                        *)
(***************************************************************************)
Rect_new(max, min) == [max |-> max, min |-> min]

\* One turn of the loop of Rect::from_points.
Rect_from_points_step(rect, point) ==
    LET max_x == IF Q_lt(rect.max.x, point.x) THEN point.x ELSE rect.max.x
        min_x == IF Q_lt(rect.max.x, point.x) THEN rect.min.x
                 ELSE IF Q_lt(point.x, rect.min.x) THEN point.x ELSE rect.min.x
        max_y == IF Q_lt(rect.max.y, point.y) THEN point.y ELSE rect.max.y
        min_y == IF Q_lt(rect.max.y, point.y) THEN rect.min.y
                 ELSE IF Q_lt(point.y, rect.min.y) THEN point.y ELSE rect.min.y
    IN  Rect_new(Vector2_new(max_x, max_y), Vector2_new(min_x, min_y))

RECURSIVE Rect_from_points_loop(_, _, _)
Rect_from_points_loop(rect, pts, k) ==
    IF k > Len(pts)
    THEN rect
    ELSE Rect_from_points_loop(Rect_from_points_step(rect, pts[k]), pts, k + 1)

\* assumes pts form rect with non-zero dimensions
Rect_from_points(pts) ==
    Rect_from_points_loop(Rect_new(pts[1], pts[1]), pts, 1)

Option_None == [is_some |-> FALSE, value |-> <<>>]

Option_Some(value) == [is_some |-> TRUE, value |-> <<value>>]

\* Mutant of Rect_intersect: the tests are strict, so rectangles that touch
\* give a rectangle of no width or height.
Rect_intersect_strict(self, other) ==
    IF \/ Q_lt(self.max.x, other.min.x)
       \/ Q_lt(self.max.y, other.min.y)
       \/ Q_lt(other.max.x, self.min.x)
       \/ Q_lt(other.max.y, self.min.y)
    THEN Option_None
    ELSE Option_Some(Rect_new(
             Vector2_new(Q_min(self.max.x, other.max.x), Q_min(self.max.y, other.max.y)),
             Vector2_new(Q_max(self.min.x, other.min.x), Q_max(self.min.y, other.min.y))))

Rect_intersect(self, other) ==
    IF \/ Q_le(self.max.x, other.min.x)
       \/ Q_le(self.max.y, other.min.y)
       \/ Q_le(other.max.x, self.min.x)
       \/ Q_le(other.max.y, self.min.y)
    THEN Option_None
    ELSE Option_Some(Rect_new(
             Vector2_new(Q_min(self.max.x, other.max.x), Q_min(self.max.y, other.max.y)),
             Vector2_new(Q_max(self.min.x, other.min.x), Q_max(self.min.y, other.min.y))))

Rect_width(self) == Q_sub(self.max.x, self.min.x)

Rect_height(self) == Q_sub(self.max.y, self.min.y)

(***************************************************************************)
(* main.rs: Camera, Light, compute_camera_fit_on_light_plane               *)
(***************************************************************************)
Camera_update_forward(self) ==
    [self EXCEPT !.forward = Vector3_new(Sin(self.z_to_x), self.forward.y, Cos(self.z_to_x))]

Camera_compute_model(self) ==
    LET pl == Vector3_wedge(self.forward, Vector3_new(0, 1, 0))
    IN  Affine3_translate(
            Affine3_rotate(
                Affine3_rotate(Affine3_IDENTITY, self.z_to_x, BiVector3_new(0, 0, 1)),
                self.xz_to_y, pl),
            self.translation)

\* Mutant of Camera_view: the rotations are undone in the order the model
\* makes them (z_to_x first), not in reverse.
Camera_view_same_order(self) ==
    LET pl == Vector3_wedge(self.forward, Vector3_new(0, 1, 0))
    IN  Affine3_rotate(
            Affine3_rotate(
                Affine3_translate(Affine3_IDENTITY, Vector3_neg(self.translation)),
                0 - self.z_to_x, BiVector3_new(0, 0, 1)),
            0 - self.xz_to_y, pl)

\* The view of Camera::to_raw before its last call, the projection scale.
Camera_view(self) ==
    LET pl == Vector3_wedge(self.forward, Vector3_new(0, 1, 0))
    IN  Affine3_rotate(
            Affine3_rotate(
                Affine3_translate(Affine3_IDENTITY, Vector3_neg(self.translation)),
                0 - self.xz_to_y, pl),
            0 - self.z_to_x, BiVector3_new(0, 0, 1))

Light_compute_view(self) ==
    Affine3_translate(Affine3_IDENTITY, Vector3_neg(self.translation))

\* maximum amount of projected cut camera view volume corners
MAX_CORNERS == 10

\* camera view volume corners, transformed by affine (corners[i + 1] is the
\* code's corners[i])
fit_corners(affine, camera_far_z, camera_near_z, camera_width, camera_height) ==
    LET near_right == ExactDiv(camera_width, 2)
        near_top == ExactDiv(camera_height, 2)
        near_left == 0 - near_right
        near_bottom == 0 - near_top
        factor == ExactDiv(camera_far_z, camera_near_z)
        far_right == near_right * factor
        far_bottom == near_bottom * factor
        far_left == 0 - far_right
        far_top == 0 - far_bottom
        corners == <<Vector3_new(near_left, near_bottom, camera_near_z),
                     Vector3_new(near_right, near_bottom, camera_near_z),
                     Vector3_new(near_left, near_top, camera_near_z),
                     Vector3_new(near_right, near_top, camera_near_z),
                     Vector3_new(far_left, far_bottom, camera_far_z),
                     Vector3_new(far_right, far_bottom, camera_far_z),
                     Vector3_new(far_left, far_top, camera_far_z),
                     Vector3_new(far_right, far_top, camera_far_z)>>
    IN  [i \in 1..8 |-> Vector3_apply(corners[i], affine)]

\* i ^ axis_mask, for a mask of one bit
Xor(i, axis_mask) ==
    IF (i \div axis_mask) % 2 = 1 THEN i - axis_mask ELSE i + axis_mask

\* Mutant of fit_cut_edge: the edge is cut whatever the z of its other end
\* (the test other_corner.z > light_near_z is missing).
fit_cut_edge_always(corners, i, axis_mask, light_near_z) ==
    LET corner == corners[i + 1]
        other_corner == corners[Xor(i, axis_mask) + 1]
        t == Q_div(Q(light_near_z - corner.z), Q(other_corner.z - corner.z))
    IN  <<Vector2_new(
              Q_add(Q_mul(Q(other_corner.x - corner.x), t), Q(corner.x)),
              Q_add(Q_mul(Q(other_corner.y - corner.y), t), Q(corner.y)))>>

\* The body of `while axis_mask != 0b000` for one axis_mask: the points it
\* writes to cut_corners.
fit_cut_edge(corners, i, axis_mask, light_near_z) ==
    LET corner == corners[i + 1]
        other_corner == corners[Xor(i, axis_mask) + 1]
        t == Q_div(Q(light_near_z - corner.z), Q(other_corner.z - corner.z))
    IN  IF other_corner.z > light_near_z
        THEN <<Vector2_new(
                   Q_add(Q_mul(Q(other_corner.x - corner.x), t), Q(corner.x)),
                   Q_add(Q_mul(Q(other_corner.y - corner.y), t), Q(corner.y)))>>
        ELSE <<>>

\* Mutant of fit_cut_corner: a corner behind the light's near plane is
\* projected like one in front of it (the test corner.z < light_near_z is
\* missing).
fit_cut_corner_no_clip(corners, i, light_near_z) ==
    LET corner == corners[i + 1]
    IN  <<Vector2_mul(Vector2_new(Q(corner.x), Q(corner.y)),
                      Q_div(Q(light_near_z), Q(corner.z)))>>

\* The body of `for i in 0..corners.len()`: the points it writes to
\* cut_corners.
fit_cut_corner(corners, i, light_near_z) ==
    LET corner == corners[i + 1]
    IN  IF corner.z < light_near_z
        THEN fit_cut_edge(corners, i, 4, light_near_z)
             \o fit_cut_edge(corners, i, 2, light_near_z)
             \o fit_cut_edge(corners, i, 1, light_near_z)
        ELSE <<Vector2_mul(Vector2_new(Q(corner.x), Q(corner.y)),
                           Q_div(Q(light_near_z), Q(corner.z)))>>

\* All the writes of the loop over the corners, in order.
fit_cut_corners(corners, light_near_z) ==
    fit_cut_corner(corners, 0, light_near_z) \o fit_cut_corner(corners, 1, light_near_z)
    \o fit_cut_corner(corners, 2, light_near_z) \o fit_cut_corner(corners, 3, light_near_z)
    \o fit_cut_corner(corners, 4, light_near_z) \o fit_cut_corner(corners, 5, light_near_z)
    \o fit_cut_corner(corners, 6, light_near_z) \o fit_cut_corner(corners, 7, light_near_z)

fit_light_rect(light_width, light_height) ==
    LET light_right == Q_div(Q(light_width), Q(2))
        light_top == Q_div(Q(light_height), Q(2))
    IN  Rect_new(Vector2_new(light_right, light_top),
                 Vector2_neg(Vector2_new(light_right, light_top)))

\* Mutant of fit_of_overlap: the translation is rect.min, not negated.
fit_of_overlap_not_negated(overlap, light_width, light_height) ==
    IF overlap.is_some
    THEN LET rect == overlap.value[1]
         IN  Option_Some(<<rect.min,
                           Scale2_new(Q_div(Q(light_width), Rect_width(rect)),
                                      Q_div(Q(light_height), Rect_height(rect)))>>)
    ELSE Option_None

\* Mutant of fit_of_overlap: the scale is the overlap's size over the light's,
\* the inverse of the code's.
fit_of_overlap_inverse_scale(overlap, light_width, light_height) ==
    IF overlap.is_some
    THEN LET rect == overlap.value[1]
         IN  Option_Some(<<Vector2_neg(rect.min),
                           Scale2_new(Q_div(Rect_width(rect), Q(light_width)),
                                      Q_div(Rect_height(rect), Q(light_height)))>>)
    ELSE Option_None

\* The value returned for the result of camera_rect.intersect(&light_rect).
fit_of_overlap(overlap, light_width, light_height) ==
    IF overlap.is_some
    THEN LET rect == overlap.value[1]
         IN  Option_Some(<<Vector2_neg(rect.min),
                           Scale2_new(Q_div(Q(light_width), Rect_width(rect)),
                                      Q_div(Q(light_height), Rect_height(rect)))>>)
    ELSE Option_None

\* cuts camera view volume and light view plane,
\* projects cut volume onto light view plane,
\* intersects projection with light view frame.
\* The record holds the returned Option (ret), whether a write to
\* cut_corners was out of bounds (panic; nothing is returned then), and the
\* locals the claims are about.
compute_camera_fit_on_light_plane(camera_model, camera_far_z, camera_near_z, camera_width, camera_height, light_view, light_near_z, light_width, light_height) ==
    LET affine == Affine3_compose(camera_model, light_view)
        corners == fit_corners(affine, camera_far_z, camera_near_z,
                               camera_width, camera_height)
        cut == fit_cut_corners(corners, light_near_z)
        light_rect == fit_light_rect(light_width, light_height)
    IN  IF Len(cut) > MAX_CORNERS
        THEN [panic |-> TRUE, ret |-> Option_None,
              cut_corners |-> cut, calls |-> {}]
        ELSE IF Len(cut) = 0
        THEN [panic |-> FALSE, ret |-> Option_None,
              cut_corners |-> cut, calls |-> {}]
        ELSE [panic |-> FALSE,
              ret |-> fit_of_overlap(
                          Rect_intersect(Rect_from_points(cut), light_rect),
                          light_width, light_height),
              cut_corners |-> cut,
              calls |-> {"Rect::from_points", "Rect::intersect"}]

(***************************************************************************)
(* input.rs: InputState.  A bitmask is the set of the keys whose bit is    *)
(* set.                                                                    *)
(***************************************************************************)
InputState_new == [keys_pressed_bitmask |-> {}, previous_keys_pressed_bitmask |-> {}]

InputState_is_key_pressed(self, key_code) == key_code \in self.keys_pressed_bitmask

InputState_was_key_pressed(self, key_code) == key_code \in self.previous_keys_pressed_bitmask

InputState_set_key_pressed(self, key_code, pressed) ==
    [self EXCEPT !.keys_pressed_bitmask =
        (@ \ {key_code}) \cup (IF pressed THEN {key_code} ELSE {})]

(***************************************************************************)
(* main.rs: the frame loop.  An Affine3 of the light's view holds f32      *)
(* values that come out of divisions (the exact rationals above).          *)
(***************************************************************************)
Vector3_add(self, other) ==
    Vector3_new(self.x + other.x, self.y + other.y, self.z + other.z)

Vector3_sub(self, other) ==
    Vector3_new(self.x - other.x, self.y - other.y, self.z - other.z)

\* An Affine3 of integers as an Affine3 of rationals.
Affine3_as_f32(m) == [k \in DOMAIN m |-> Q(m[k])]

\* Affine3::scale and Affine3::translate on rationals.
Affine3_scale_f32(self, s) ==
    [xx |-> Q_mul(self.xx, s.x), yx |-> Q_mul(self.yx, s.x),
     zx |-> Q_mul(self.zx, s.x), _x |-> Q_mul(self._x, s.x),
     xy |-> Q_mul(self.xy, s.y), yy |-> Q_mul(self.yy, s.y),
     zy |-> Q_mul(self.zy, s.y), _y |-> Q_mul(self._y, s.y),
     xz |-> Q_mul(self.xz, s.z), yz |-> Q_mul(self.yz, s.z),
     zz |-> Q_mul(self.zz, s.z), _z |-> Q_mul(self._z, s.z)]

Affine3_translate_f32(self, t) ==
    [self EXCEPT !._x = Q_add(self._x, t.x), !._y = Q_add(self._y, t.y),
                 !._z = Q_add(self._z, t.z)]

\* The fit with its scale before its first translate.
frame_fit_light_view_scale_first(light_view, fit_ret, shadow_fit_, light_) ==
    IF fit_ret.is_some /\ shadow_fit_
    THEN LET trans == fit_ret.value[1][1]
             scl == fit_ret.value[1][2]
         IN  Affine3_translate_f32(
                 Affine3_translate_f32(
                     Affine3_scale_f32(light_view, Scale3_new(scl.x, scl.y, Q(1))),
                     Vector3_new(trans.x, trans.y, Q(0))),
                 Vector3_new(Q_div(Q(0 - light_.width), Q(2)),
                             Q_div(Q(0 - light_.height), Q(2)), Q(0)))
    ELSE light_view

\* if let Some((trans, scale)) = fit { if shadow_fit { light_view = ... } }
frame_fit_light_view(light_view, fit_ret, shadow_fit_, light_) ==
    IF fit_ret.is_some /\ shadow_fit_
    THEN LET trans == fit_ret.value[1][1]
             scl == fit_ret.value[1][2]
         IN  Affine3_translate_f32(
                 Affine3_scale_f32(
                     Affine3_translate_f32(light_view, Vector3_new(trans.x, trans.y, Q(0))),
                     Scale3_new(scl.x, scl.y, Q(1))),
                 Vector3_new(Q_div(Q(0 - light_.width), Q(2)),
                             Q_div(Q(0 - light_.height), Q(2)), Q(0)))
    ELSE light_view

\* light_view.scale(2 near_z / width, 2 near_z / height, 1): the default
\* near/size projection scale.
frame_project_light_view(light_view, light_) ==
    Affine3_scale_f32(light_view,
        Scale3_new(Q_div(Q(2 * light_.near_z), Q(light_.width)),
                   Q_div(Q(2 * light_.near_z), Q(light_.height)), Q(1)))

\* Mutant of frame_shadow_pass: the shadow pass is recorded in every frame.
frame_shadow_pass_always(fit_ret) == TRUE

\* if fit.is_some() { let mut shadow_pass = encoder.begin_render_pass(..) .. }
frame_shadow_pass(fit_ret) == fit_ret.is_some

\* The camera after the key handling of MainEventsCleared, for a frame time
\* in which the camera moves by one unit and turns by a quarter turn.
tick_camera(camera_, input_) ==
    LET cam == Camera_update_forward(camera_)
        delta_translation == cam.forward
        delta_rotation == 1
        w_pressed == InputState_is_key_pressed(input_, "W")
        s_pressed == InputState_is_key_pressed(input_, "S")
        d_pressed == InputState_is_key_pressed(input_, "D")
        a_pressed == InputState_is_key_pressed(input_, "A")
        up_pressed == InputState_is_key_pressed(input_, "Up")
        down_pressed == InputState_is_key_pressed(input_, "Down")
        right_pressed == InputState_is_key_pressed(input_, "Right")
        left_pressed == InputState_is_key_pressed(input_, "Left")
        t1 == IF w_pressed /\ ~s_pressed
              THEN Vector3_add(cam.translation, delta_translation)
              ELSE IF ~w_pressed /\ s_pressed
              THEN Vector3_sub(cam.translation, delta_translation)
              ELSE cam.translation
        t2 == IF d_pressed /\ ~a_pressed
              THEN Vector3_new(t1.x + delta_translation.z, t1.y, t1.z - delta_translation.x)
              ELSE IF ~d_pressed /\ a_pressed
              THEN Vector3_new(t1.x - delta_translation.z, t1.y, t1.z + delta_translation.x)
              ELSE t1
        xz_to_y == IF up_pressed /\ ~down_pressed THEN cam.xz_to_y + delta_rotation
                   ELSE IF ~up_pressed /\ down_pressed THEN cam.xz_to_y - delta_rotation
                   ELSE cam.xz_to_y
        z_to_x == IF right_pressed /\ ~left_pressed THEN cam.z_to_x + delta_rotation
                  ELSE IF ~right_pressed /\ left_pressed THEN cam.z_to_x - delta_rotation
                  ELSE cam.z_to_x
    IN  [cam EXCEPT !.translation = t2, !.xz_to_y = xz_to_y, !.z_to_x = z_to_x]

\* The light after the key handling of MainEventsCleared (it moves by one
\* unit in the frame time).
tick_light(light_, input_) ==
    LET e_pressed == InputState_is_key_pressed(input_, "E")
        r_pressed == InputState_is_key_pressed(input_, "R")
    IN  IF e_pressed /\ ~r_pressed
        THEN [light_ EXCEPT !.translation.z = @ + 1]
        ELSE IF ~e_pressed /\ r_pressed
        THEN [light_ EXCEPT !.translation.z = @ - 1]
        ELSE light_

\* Mutant of tick_shadow_fit: the flag flips in every tick with Space down.
tick_shadow_fit_while_held(shadow_fit_, input_) ==
    IF InputState_is_key_pressed(input_, "Space")
    THEN ~shadow_fit_
    ELSE shadow_fit_

\* if input.is_key_pressed(Space) && !input.was_key_pressed(Space) { .. }
tick_shadow_fit(shadow_fit_, input_) ==
    IF InputState_is_key_pressed(input_, "Space") /\ ~InputState_was_key_pressed(input_, "Space")
    THEN ~shadow_fit_
    ELSE shadow_fit_

(***************************************************************************)
(* polygon.rs: graham_scan.  A slice is a sequence; the code's index k is  *)
(* the sequence's k + 1.                                                   *)
(***************************************************************************)
Vector2_sub(self, other) == Vector2_new(Q_sub(self.x, other.x), Q_sub(self.y, other.y))

Vector2_add(self, other) == Vector2_new(Q_add(self.x, other.x), Q_add(self.y, other.y))

\* Vector2::wedge, the xy of the BiVector2.
Vector2_wedge(self, other) == Q_sub(Q_mul(self.x, other.y), Q_mul(self.y, other.x))

\* The slice's element of the code's index k.
At(slice, k) == slice[k + 1]

\* for i in 1..points.len() { if points[i].y < points[min_i].y { min_i = i } }
RECURSIVE graham_min_i(_, _, _)
graham_min_i(pts, i, min_i) ==
    IF i >= Len(pts)
    THEN min_i
    ELSE graham_min_i(pts, i + 1, IF Q_lt(At(pts, i).y, At(pts, min_i).y) THEN i ELSE min_i)

\* point_0 = points[min_i]; points[min_i] = points[0]; points[0] = point_0
graham_swap(pts, min_i) ==
    [k \in 1..Len(pts) |->
        IF k = 1 THEN At(pts, min_i) ELSE IF k = min_i + 1 THEN At(pts, 0) ELSE pts[k]]

\* f32::total_cmp of the products p1 * p2 and q1 * q2 of finite factors:
\* -1 (Less), 0 (Equal) or 1 (Greater).  A product that is zero is -0.0
\* when one factor is negative (the other is then +0.0), and total_cmp
\* puts -0.0 before +0.0.
F32_total_cmp_of_products(p1, p2, q1, q2) ==
    LET p == Q_mul(p1, p2)
        q == Q_mul(q1, q2)
        p_neg_zero == p = Q(0) /\ (Q_lt(p1, Q(0)) \/ Q_lt(p2, Q(0)))
        q_neg_zero == q = Q(0) /\ (Q_lt(q1, Q(0)) \/ Q_lt(q2, Q(0)))
    IN  IF Q_lt(p, q) THEN 0 - 1
        ELSE IF Q_lt(q, p) THEN 1
        ELSE IF p_neg_zero /\ ~q_neg_zero THEN 0 - 1
        ELSE IF ~p_neg_zero /\ q_neg_zero THEN 1
        ELSE 0

\* Mutant of graham_compare: the two products are compared the other way
\* round, which sorts the points clockwise.
graham_compare_reversed(pa, pb, point_0) ==
    LET a_dy == Q_sub(pa.y, point_0.y)
        b_dy == Q_sub(pb.y, point_0.y)
        a_dx == Q_sub(pa.x, point_0.x)
        b_dx == Q_sub(pb.x, point_0.x)
    IN  F32_total_cmp_of_products(a_dx, b_dy, b_dx, a_dy)

\* The closure given to sort_unstable_by.
graham_compare(pa, pb, point_0) ==
    LET a_dy == Q_sub(pa.y, point_0.y)
        b_dy == Q_sub(pb.y, point_0.y)
        a_dx == Q_sub(pa.x, point_0.x)
        b_dx == Q_sub(pb.x, point_0.x)
    IN  IF \/ (Q_le(Q(0), a_dy) /\ Q_le(Q(0), b_dy))
           \/ (Q_lt(a_dy, Q(0)) /\ Q_lt(b_dy, Q(0)))
        THEN F32_total_cmp_of_products(b_dx, a_dy, a_dx, b_dy)
        ELSE F32_total_cmp_of_products(a_dx, b_dy, b_dx, a_dy)

\* The orders sort_unstable_by can leave the points of rest in: each point
\* in turn is one that the closure puts after none of those still to come
\* (equal points come in any order).
RECURSIVE graham_sort_orders(_, _)
graham_sort_orders(rest, point_0) ==
    IF rest = {}
    THEN {<<>>}
    ELSE UNION {{<<p>> \o t : t \in graham_sort_orders(rest \ {p}, point_0)} :
                p \in {p \in rest : \A q \in rest : graham_compare(p, q, point_0) # 1}}

\* The points slice after points[1..].sort_unstable_by(..).
graham_sorted(pts) ==
    {<<pts[1]>> \o t : t \in graham_sort_orders({pts[k] : k \in 2..Len(pts)}, pts[1])}

\* Mutant of graham_pop: nothing is popped, whatever the turn.
graham_pop_nothing(pts, indices, prev_indices_last_i, i, j, old_vec, new_vec) ==
    [panic |-> FALSE, prev_indices_last_i |-> prev_indices_last_i,
     j |-> j, new_vec |-> new_vec]

\* while turn.xy <= 0.0 { .. }: the stack is popped until the turn at j is
\* a left turn.  panic: prev_indices_last_i -= 1 at 0, or an index out of
\* bounds.
RECURSIVE graham_pop(_, _, _, _, _, _, _)
graham_pop(pts, indices, prev_indices_last_i, i, j, old_vec, new_vec) ==
    IF Q_lt(Q(0), Vector2_wedge(old_vec, new_vec))
    THEN [panic |-> FALSE, prev_indices_last_i |-> prev_indices_last_i,
          j |-> j, new_vec |-> new_vec]
    ELSE IF prev_indices_last_i = 0
    THEN [panic |-> TRUE, prev_indices_last_i |-> prev_indices_last_i,
          j |-> j, new_vec |-> new_vec]
    ELSE LET j2 == indices[prev_indices_last_i]
             prev_j == indices[prev_indices_last_i - 1]
         IN  graham_pop(pts, indices, prev_indices_last_i - 1, i, j2,
                        Vector2_sub(At(pts, j2), At(pts, prev_j)),
                        Vector2_sub(At(pts, i), At(pts, j2)))

\* while i < last_i { .. } and the lines after it.
RECURSIVE graham_loop(_, _, _, _, _)
graham_loop(pts, indices, prev_indices_last_i, i, old_vec) ==
    LET last_i == Len(pts) - 1
    IN  IF i < last_i
        THEN LET popped == graham_pop(pts, indices, prev_indices_last_i, i + 1, i, old_vec,
                                      Vector2_sub(At(pts, i + 1), At(pts, i)))
             IN  IF popped.panic
                 THEN [panic |-> TRUE, indices |-> indices, count |-> 0]
                 ELSE graham_loop(pts,
                          [indices EXCEPT ![popped.prev_indices_last_i + 1] = popped.j],
                          popped.prev_indices_last_i + 1, i + 1, popped.new_vec)
        ELSE [panic |-> FALSE,
              indices |-> [indices EXCEPT ![prev_indices_last_i + 1] = last_i],
              count |-> prev_indices_last_i + 2]

\* graham_scan after the sort: sorted is the points slice, indices the
\* caller's buffer (a function of the code's indices).
graham_scan_sorted(sorted, indices) ==
    IF Len(sorted) < 3 \/ \E k \in 0..Len(sorted) - 1 : k \notin DOMAIN indices
    THEN [panic |-> TRUE, indices |-> indices, count |-> 0]
    ELSE graham_loop(sorted, [indices EXCEPT ![0] = 0, ![1] = 1], 1, 2,
                     Vector2_sub(At(sorted, 2), At(sorted, 1)))

(***************************************************************************)
(* polygon.rs: convex_intersect_alloc and convex_intersect_no_alloc.  The  *)
(* record of a loop holds its locals; p, q, old_p and old_q are the        *)
(* vertices the references point at.                                       *)
(***************************************************************************)
\* The test without its upper bounds: the lines meet beyond the old ends.
convex_in_unit_unbounded(t, s) ==
    Q_le(Q(0), t) /\ Q_le(Q(0), s)

\* t >= 0.0 && t <= 1.0 && s >= 0.0 && s <= 1.0
convex_in_unit(t, s) ==
    Q_le(Q(0), t) /\ Q_le(t, Q(1)) /\ Q_le(Q(0), s) /\ Q_le(s, Q(1))

\* The locals with the flag set from the start.
convex_start_inside_p(cp, cq) ==
    [p_i |-> 1, q_i |-> 1,
     p |-> At(cp, 1), q |-> At(cq, 1), old_p |-> At(cp, 0), old_q |-> At(cq, 0),
     dp |-> Vector2_sub(At(cp, 1), At(cp, 0)), dq |-> Vector2_sub(At(cq, 1), At(cq, 0)),
     inside |-> "P", broke |-> FALSE]

\* The locals before the loop, of either function.
convex_start(cp, cq) ==
    [p_i |-> 1, q_i |-> 1,
     p |-> At(cp, 1), q |-> At(cq, 1), old_p |-> At(cp, 0), old_q |-> At(cq, 0),
     dp |-> Vector2_sub(At(cp, 1), At(cp, 0)), dq |-> Vector2_sub(At(cq, 1), At(cq, 0)),
     inside |-> " ", broke |-> FALSE]

\* One turn of the loop of convex_intersect_alloc; l holds the locals and
\* convex_r the Vec.
convex_alloc_step(cp, cq, l) ==
    LET old_q_to_p == Vector2_sub(l.p, l.old_q)
        dq_dp == Vector2_wedge(l.dq, l.dp)
        p_in_dq_side == Q_lt(Q(0), Vector2_wedge(l.dq, old_q_to_p))
        dold == Vector2_sub(l.old_q, l.old_p)
        t == Q_div(Vector2_wedge(l.dq, dold), dq_dp)
        s == Q_div(Vector2_wedge(l.dp, dold), dq_dp)
        hit == convex_in_unit(t, s)
        r == Vector2_add(l.old_p, Vector2_mul(l.dp, t))
        break == hit /\ Len(l.convex_r) # 0 /\ l.convex_r[1] = r
        r1_ == IF hit THEN Append(l.convex_r, r) ELSE l.convex_r
        inside == IF hit THEN (IF p_in_dq_side THEN "P" ELSE "Q") ELSE l.inside
        old_p_to_q == Vector2_sub(l.q, l.old_p)
        q_in_dp_side == Q_lt(Q(0), Vector2_wedge(l.dp, old_p_to_q))
        dq_dp_ccw == Q_lt(Q(0), dq_dp)
    IN  IF break
        THEN [l EXCEPT !.broke = TRUE]
        ELSE IF (dq_dp_ccw /\ p_in_dq_side) \/ (~dq_dp_ccw /\ ~q_in_dp_side)
        THEN LET q_i == (l.q_i + 1) % Len(cq)
             IN  [l EXCEPT !.convex_r = IF inside = "Q" THEN Append(r1_, l.q) ELSE r1_,
                           !.inside = inside,
                           !.q_i = q_i, !.old_q = l.q, !.q = At(cq, q_i),
                           !.dq = Vector2_sub(At(cq, q_i), l.q)]
        ELSE LET p_i == (l.p_i + 1) % Len(cp)
             IN  [l EXCEPT !.convex_r = IF inside = "P" THEN Append(r1_, l.p) ELSE r1_,
                           !.inside = inside,
                           !.p_i = p_i, !.old_p = l.p, !.p = At(cp, p_i),
                           !.dp = Vector2_sub(At(cp, p_i), l.p)]

\* for _ in 0..2 * (convex_p.len() + convex_q.len()) { .. }, n turns left.
RECURSIVE convex_alloc_loop(_, _, _, _)
convex_alloc_loop(cp, cq, l, n) ==
    IF n = 0 \/ l.broke
    THEN l
    ELSE convex_alloc_loop(cp, cq, convex_alloc_step(cp, cq, l), n - 1)

\* let mut convex_r = vec![]; with the other locals.
convex_alloc_start(cp, cq) ==
    [k \in DOMAIN convex_start(cp, cq) \cup {"convex_r"} |->
        IF k = "convex_r" THEN <<>> ELSE convex_start(cp, cq)[k]]

convex_intersect_alloc(cp, cq) ==
    convex_alloc_loop(cp, cq, convex_alloc_start(cp, cq), 2 * (Len(cp) + Len(cq))).convex_r

\* The write without convex_r_len += 1.
convex_write_in_place(l, value) ==
    IF l.convex_r_len >= Len(l.convex_r)
    THEN [l EXCEPT !.panic = TRUE]
    ELSE [l EXCEPT !.convex_r[l.convex_r_len + 1] = value]

\* convex_r[convex_r_len] = value; convex_r_len += 1, on the locals of
\* convex_intersect_no_alloc: a write past the end of the slice panics.
convex_write(l, value) ==
    IF l.convex_r_len >= Len(l.convex_r)
    THEN [l EXCEPT !.panic = TRUE]
    ELSE [l EXCEPT !.convex_r[l.convex_r_len + 1] = value,
                   !.convex_r_len = l.convex_r_len + 1]

\* One turn of the loop of convex_intersect_no_alloc; l holds the locals,
\* the slice convex_r and convex_r_len.
convex_no_alloc_step(cp, cq, l) ==
    LET old_q_to_p == Vector2_sub(l.p, l.old_q)
        dq_dp == Vector2_wedge(l.dq, l.dp)
        p_in_dq_side == Q_lt(Q(0), Vector2_wedge(l.dq, old_q_to_p))
        dold == Vector2_sub(l.old_q, l.old_p)
        t == Q_div(Vector2_wedge(l.dq, dold), dq_dp)
        s == Q_div(Vector2_wedge(l.dp, dold), dq_dp)
        hit == convex_in_unit(t, s)
        r == Vector2_add(l.old_p, Vector2_mul(l.dp, t))
        break == hit /\ l.convex_r_len # 0 /\ l.convex_r[1] = r
        l1 == IF hit THEN convex_write(l, r) ELSE l
        inside == IF hit THEN (IF p_in_dq_side THEN "P" ELSE "Q") ELSE l.inside
        old_p_to_q == Vector2_sub(l.q, l.old_p)
        q_in_dp_side == Q_lt(Q(0), Vector2_wedge(l.dp, old_p_to_q))
        dq_dp_ccw == Q_lt(Q(0), dq_dp)
    IN  IF break
        THEN [l EXCEPT !.broke = TRUE]
        ELSE IF l1.panic
        THEN l1
        ELSE IF (dq_dp_ccw /\ p_in_dq_side) \/ (~dq_dp_ccw /\ ~q_in_dp_side)
        THEN LET q_i == (l.q_i + 1) % Len(cq)
                 l2 == IF inside = "Q" THEN convex_write(l1, l.q) ELSE l1
             IN  IF l2.panic
                 THEN l2
                 ELSE [l2 EXCEPT !.inside = inside,
                                 !.q_i = q_i, !.old_q = l.q, !.q = At(cq, q_i),
                                 !.dq = Vector2_sub(At(cq, q_i), l.q)]
        ELSE LET p_i == (l.p_i + 1) % Len(cp)
                 l2 == IF inside = "P" THEN convex_write(l1, l.p) ELSE l1
             IN  IF l2.panic
                 THEN l2
                 ELSE [l2 EXCEPT !.inside = inside,
                                 !.p_i = p_i, !.old_p = l.p, !.p = At(cp, p_i),
                                 !.dp = Vector2_sub(At(cp, p_i), l.p)]

RECURSIVE convex_no_alloc_loop(_, _, _, _)
convex_no_alloc_loop(cp, cq, l, n) ==
    IF n = 0 \/ l.broke \/ l.panic
    THEN l
    ELSE convex_no_alloc_loop(cp, cq, convex_no_alloc_step(cp, cq, l), n - 1)

\* buffer is the slice convex_r the caller passes.
\* let mut convex_r_len = 0; with the other locals and the caller's slice.
convex_no_alloc_start(cp, cq, buffer) ==
    [k \in DOMAIN convex_start(cp, cq) \cup {"convex_r", "convex_r_len", "panic"} |->
        IF k = "convex_r" THEN buffer
        ELSE IF k = "convex_r_len" THEN 0
        ELSE IF k = "panic" THEN FALSE
        ELSE convex_start(cp, cq)[k]]

convex_intersect_no_alloc(cp, cq, buffer) ==
    LET l == convex_no_alloc_loop(cp, cq, convex_no_alloc_start(cp, cq, buffer),
                                  2 * (Len(cp) + Len(cq)))
    IN  [panic |-> l.panic, len |-> l.convex_r_len, convex_r |-> l.convex_r]

(***************************************************************************)
(* Operands.  Every vector with components in Coords has a code in         *)
(* 0..Base^3-1 (its components, shifted, are the code's digits); an        *)
(* Affine3 operand is four such rows, sampled with different strides.      *)
(***************************************************************************)
VectorOfCode(n) ==
    Vector3_new((n % Base) - MaxCoord,
                ((n \div Base) % Base) - MaxCoord,
                ((n \div (Base * Base)) % Base) - MaxCoord)

AffineOfRows(rx, ry, rz, t) ==
    [xx |-> rx.x, xy |-> rx.y, xz |-> rx.z,
     yx |-> ry.x, yy |-> ry.y, yz |-> ry.z,
     zx |-> rz.x, zy |-> rz.y, zz |-> rz.z,
     _x |-> t.x,  _y |-> t.y,  _z |-> t.z]

Cube == Base * Base * Base

SampleAffine(k) ==
    AffineOfRows(VectorOfCode((37 * k + 11) % Cube),
                 VectorOfCode((53 * k + 29) % Cube),
                 VectorOfCode((71 * k + 3) % Cube),
                 VectorOfCode((89 * k + 47) % Cube))

Affines == {Affine3_IDENTITY} \cup {SampleAffine(k) : k \in 1..NumAffines}

Vectors == {VectorOfCode((41 * k + 7) % Cube) : k \in 0..MaxCoord + 1}

RotorOfCode(n) ==
    Rotor_new((n % Base) - MaxCoord,
              ((n \div Base) % Base) - MaxCoord,
              ((n \div (Base * Base)) % Base) - MaxCoord,
              ((n \div Cube) % Base) - MaxCoord)

Rotors == {Rotor_IDENTITY} \cup {RotorOfCode((97 * k + 13) % (Cube * Base)) : k \in 1..NumRotors}

Scales == {Scale3_IDENTITY} \cup {VectorOfCode((59 * k + 23) % Cube) : k \in 0..MaxCoord}

Angles == (0 - MaxTurns)..MaxTurns

\* The unit BiVector3s with integer components: the three axis planes, in
\* both orientations.
UnitPlanes ==
    {bv \in [xy : -1..1, yz : -1..1, zx : -1..1] : BiVector3_norm_sqr(bv) = 1}

\* The variables a specification does not use keep these values.
IdleCompose ==
    /\ a = Affine3_IDENTITY
    /\ b = Affine3_IDENTITY
    /\ c = Affine3_IDENTITY
    /\ v = Vector3_IDENTITY

IdleFrom ==
    /\ scale = Scale3_IDENTITY
    /\ rotation = Rotor_IDENTITY
    /\ translation = Vector3_IDENTITY
    /\ theta = 0
    /\ plane = BiVector3_new(1, 0, 0)

IdleRotor ==
    /\ r1 = Rotor_IDENTITY
    /\ r2 = Rotor_IDENTITY
    /\ r3 = Rotor_IDENTITY

\* The frustum parameters <<near_z, far_z, width, height>> of the camera:
\* the program's (main.rs:656-660, for a square window) and two smaller
\* ones.  width and height are even and far_z is a multiple of near_z, so
\* that the corners are integers.
Frustums == {<<1, 10, 2, 2>>, <<1, 2, 4, 2>>, <<2, 4, 2, 2>>}

\* The parameters <<near_z, width, height>> of the light: the program's
\* (main.rs:664-666) and smaller near planes with larger frames.
LightFrames == {<<4, 1, 1>>, <<1, 2, 2>>, <<1, 4, 2>>, <<2, 2, 2>>, <<2, 4, 4>>}

\* The camera moves in the xz plane and turns by quarter turns; its forward
\* vector is the one update_forward leaves.
Cameras ==
    {Camera_update_forward(
         [translation |-> Vector3_new(x, 0, z),
          forward |-> Vector3_new(0, 0, 1),
          z_to_x |-> k, xz_to_y |-> j,
          near_z |-> f[1], far_z |-> f[2], width |-> f[3], height |-> f[4]]) :
     x \in 0..1, z \in (0 - MaxPos)..MaxPos, k \in 0..3, j \in -1..1, f \in Frustums}

\* The light moves along z only.
Lights ==
    {[translation |-> Vector3_new(0, 0, z),
      near_z |-> f[1], width |-> f[2], height |-> f[3]] :
     z \in -1..0, f \in LightFrames}

NoFit == [panic |-> FALSE, ret |-> Option_None]

IdleFit ==
    /\ camera = Camera_update_forward(
                     [translation |-> Vector3_new(0, 0, 0),
                      forward |-> Vector3_new(0, 0, 1),
                      z_to_x |-> 0, xz_to_y |-> 0,
                      near_z |-> 1, far_z |-> 10, width |-> 2, height |-> 2])
    /\ light = [translation |-> Vector3_new(0, 0, 0),
                near_z |-> 4, width |-> 1, height |-> 1]
    /\ fit = NoFit
    /\ cut_corners = <<>>
    /\ reached = {}

\* The keys of the device events the model delivers.
Keys == {"W", "Right", "Up", "Space"}

IdleFrame ==
    /\ input = InputState_new
    /\ shadow_fit = FALSE
    /\ light_buffer = Affine3_as_f32(Affine3_IDENTITY)
    /\ shadow_pass = FALSE
    /\ frames = 0

\* The rectangles with min <= max on both axes (zero-width and zero-height
\* ones included) and integer coordinates.
Rects ==
    {Rect_new(Vector2_new(Q(x2), Q(y2)), Vector2_new(Q(x1), Q(y1))) :
     <<x1, x2, y1, y2>> \in {q \in (0..MaxRect) \X (0..MaxRect) \X (0..MaxRect) \X (0..MaxRect) :
                               q[1] <= q[2] /\ q[3] <= q[4]}}

IdleRect ==
    /\ rect1 = Rect_new(Vector2_IDENTITY, Vector2_IDENTITY)
    /\ rect2 = Rect_new(Vector2_IDENTITY, Vector2_IDENTITY)

\* The points of the grid have the codes 0..GridSize - 1, in the order of
\* their y and then their x.
GridSize == (MaxGrid + 1) * (MaxGrid + 1)

PointOfCode(n) == Vector2_new(Q(n % (MaxGrid + 1)), Q(n \div (MaxGrid + 1)))

\* The points of the codes S one after another in the order of the grid,
\* from the one that has k points before it, and round.
ListFrom(S, k) ==
    LET n == Cardinality(S)
    IN  [m \in 1..n |->
            PointOfCode(CHOOSE p \in S : Cardinality({q \in S : q < p}) = (k + m - 1) % n)]

\* The point lists graham_scan is given: 3..MaxPoints distinct points of
\* the grid.  Any of the lowest points can come first; the order of the
\* others does not matter to the unstable sort.
PointLists ==
    {ListFrom(sk[1], sk[2]) : sk \in {sk \in (SUBSET (0..GridSize - 1)) \X (0..MaxPoints - 1) :
                                        /\ Cardinality(sk[1]) >= 3
                                        /\ Cardinality(sk[1]) <= MaxPoints
                                        /\ sk[2] < Cardinality(sk[1])}}

\* Point lists with long collinear runs: 3..MaxPoints distinct points of
\* the two lowest rows of a grid that is one point wider.
RowPointOfCode(n) == Vector2_new(Q(n % (MaxGrid + 2)), Q(n \div (MaxGrid + 2)))

RowListFrom(S, k) ==
    LET n == Cardinality(S)
    IN  [m \in 1..n |->
            RowPointOfCode(CHOOSE p \in S : Cardinality({q \in S : q < p}) = (k + m - 1) % n)]

RowLists ==
    {RowListFrom(sk[1], sk[2]) :
        sk \in {sk \in (SUBSET (0..2 * (MaxGrid + 2) - 1)) \X (0..MaxPoints - 1) :
                   /\ Cardinality(sk[1]) >= 3
                   /\ Cardinality(sk[1]) <= MaxPoints
                   /\ sk[2] < Cardinality(sk[1])}}

IdleHull ==
    /\ points = <<>>
    /\ indices_on_hull = <<>>
    /\ hull = [panic |-> FALSE, count |-> 0]

\* The counter-clockwise polygons of the model, about the origin: the
\* square of C18, two triangles, a quadrilateral and a square that
\* holds the first.
BasePolygons ==
    {<<Vector2_new(Q(0 - 1), Q(0 - 1)), Vector2_new(Q(1), Q(0 - 1)),
       Vector2_new(Q(1), Q(1)), Vector2_new(Q(0 - 1), Q(1))>>,
     <<Vector2_new(Q(0 - 1), Q(0 - 1)), Vector2_new(Q(2), Q(0)), Vector2_new(Q(0), Q(2))>>,
     <<Vector2_new(Q(0 - 2), Q(0 - 1)), Vector2_new(Q(1), Q(0 - 2)), Vector2_new(Q(0), Q(2))>>,
     <<Vector2_new(Q(0), Q(0 - 2)), Vector2_new(Q(2), Q(1)),
       Vector2_new(Q(0 - 1), Q(2)), Vector2_new(Q(0 - 2), Q(0))>>,
     <<Vector2_new(Q(0 - 3), Q(0 - 3)), Vector2_new(Q(3), Q(0 - 3)),
       Vector2_new(Q(3), Q(3)), Vector2_new(Q(0 - 3), Q(3))>>}

\* The polygon listed from its vertex of the code's index k, and shifted.
PolygonFrom(poly, k, dx, dy) ==
    [m \in 1..Len(poly) |->
        Vector2_add(poly[((k + m - 1) % Len(poly)) + 1], Vector2_new(Q(dx), Q(dy)))]

Polygons(shifts) ==
    {PolygonFrom(poly, k, dx, dy) :
        poly \in BasePolygons, k \in 0..3, dx \in shifts, dy \in shifts}

IdleConvex ==
    /\ convex_p = <<>>
    /\ convex_q = <<>>
    /\ convex_r = <<>>
    /\ no_alloc = [panic |-> FALSE, len |-> 0, convex_r |-> <<>>]

(***************************************************************************)
(* SpecCompose: the operands are drawn, then one operation is applied.     *)
(***************************************************************************)
InitCompose ==
    /\ IdleConvex
    /\ IdleHull
    /\ IdleRect
    /\ op = "init"
    /\ a \in Affines
    /\ b \in Affines
    /\ c \in Affines
    /\ v \in Vectors
    /\ IdleFrom
    /\ IdleRotor
    /\ IdleFit
    /\ IdleFrame
    /\ lhs = Vector3_IDENTITY
    /\ rhs = Vector3_IDENTITY

\* v through compose(a, b), and v through a and then through b.
ApplyComposed ==
    /\ op = "init"
    /\ op' = "apply_composed"
    /\ lhs' = Vector3_apply(v, Affine3_compose(a, b))
    /\ rhs' = Vector3_apply(Vector3_apply(v, a), b)
    /\ UNCHANGED <<convexVars, hullVars, rectVars, composeVars, fromVars, rotorVars, fitVars, frameVars>>

\* The two bracketings of the composition of a, b and c.
ComposeThree ==
    /\ op = "init"
    /\ op' = "compose_three"
    /\ lhs' = Affine3_compose(Affine3_compose(a, b), c)
    /\ rhs' = Affine3_compose(a, Affine3_compose(b, c))
    /\ UNCHANGED <<convexVars, hullVars, rectVars, composeVars, fromVars, rotorVars, fitVars, frameVars>>

\* a composed with the identity, on either side.
ComposeIdentity ==
    /\ op = "init"
    /\ op' = "compose_identity"
    /\ lhs' = Affine3_compose(Affine3_IDENTITY, a)
    /\ rhs' = Affine3_compose(a, Affine3_IDENTITY)
    /\ UNCHANGED <<convexVars, hullVars, rectVars, composeVars, fromVars, rotorVars, fitVars, frameVars>>

NextCompose == ApplyComposed \/ ComposeThree \/ ComposeIdentity

SpecCompose == InitCompose /\ [][NextCompose]_vars

(***************************************************************************)
(* C1: for all affine transforms a, b and every vector v, applying         *)
(* compose(a, b) to v equals applying a and then b: compose(a, b) is       *)
(* "a then b".                                                             *)
(***************************************************************************)
C1_ComposeIsAThenB ==
    op = "apply_composed" => lhs = rhs

\* a and b do not commute on v, so the order of composition is visible.
C1_Witness ==
    /\ op = "apply_composed"
    /\ lhs = rhs
    /\ Vector3_apply(Vector3_apply(v, b), a) # rhs
    /\ a._x # 0
    /\ b.xy # b.yx

(***************************************************************************)
(* C2: compose is associative: compose(compose(a, b), c) equals            *)
(* compose(a, compose(b, c)) in all 12 stored components.                  *)
(***************************************************************************)
C2_ComposeAssociative ==
    op = "compose_three" => lhs = rhs

\* Three pairwise different, non-identity operands with non-zero
\* translations, whose composition depends on the order.
C2_Witness ==
    /\ op = "compose_three"
    /\ lhs = rhs
    /\ Affine3_IDENTITY \notin {a, b, c}
    /\ a # b /\ b # c /\ a # c
    /\ Affine3_compose(b, a) # Affine3_compose(a, b)
    /\ lhs # Affine3_compose(Affine3_compose(c, b), a)

(***************************************************************************)
(* C3: Affine3::IDENTITY is a two-sided identity of compose:               *)
(* compose(IDENTITY, a) = a and compose(a, IDENTITY) = a in all 12         *)
(* components.                                                             *)
(***************************************************************************)
C3_ComposeIdentity ==
    op = "compose_identity" => (lhs = a /\ rhs = a)

C3_Witness ==
    /\ op = "compose_identity"
    /\ lhs = a /\ rhs = a
    /\ a # Affine3_IDENTITY
    /\ <<a._x, a._y, a._z>> # <<0, 0, 0>>

(***************************************************************************)
(* SpecFrom: the arguments of Affine3::from, an angle and a unit plane     *)
(* are drawn, then one operation is applied.                               *)
(***************************************************************************)
InitFrom ==
    /\ IdleConvex
    /\ IdleHull
    /\ IdleRect
    /\ op = "init"
    /\ scale \in Scales
    /\ rotation \in Rotors
    /\ translation \in Vectors
    /\ theta \in Angles
    /\ plane \in UnitPlanes
    /\ IdleCompose
    /\ IdleRotor
    /\ IdleFit
    /\ IdleFrame
    /\ lhs = Affine3_IDENTITY
    /\ rhs = Affine3_IDENTITY

\* Affine3::from, and the composition of its three parts: the scale, then
\* the rotation of the rotor, then the translation.
FromParts ==
    /\ op = "init"
    /\ op' = "from"
    /\ lhs' = Affine3_from(scale, rotation, translation)
    /\ rhs' = Affine3_compose(
                  Affine3_compose(
                      Affine3_from(scale, Rotor_IDENTITY, Vector3_IDENTITY),
                      Affine3_from(Scale3_IDENTITY, rotation, Vector3_IDENTITY)),
                  Affine3_from(Scale3_IDENTITY, Rotor_IDENTITY, translation))
    /\ UNCHANGED <<convexVars, hullVars, rectVars, composeVars, fromVars, rotorVars, fitVars, frameVars>>

\* The transform of the rotor (theta * plane).exp(), and the identity
\* rotated by theta in plane.
RotorAndRotate ==
    /\ op = "init"
    /\ op' = "rotor_and_rotate"
    /\ lhs' = Affine3_from(Scale3_IDENTITY,
                           BiVector3_exp(BiVector3_mul(plane, theta)),
                           Vector3_IDENTITY)
    /\ rhs' = Affine3_rotate(Affine3_IDENTITY, theta, plane)
    /\ UNCHANGED <<convexVars, hullVars, rectVars, composeVars, fromVars, rotorVars, fitVars, frameVars>>

\* (theta * plane).exp(); rhs keeps the argument.
Exp ==
    /\ op = "init"
    /\ op' = "exp"
    /\ lhs' = BiVector3_exp(BiVector3_mul(plane, theta))
    /\ rhs' = BiVector3_mul(plane, theta)
    /\ UNCHANGED <<convexVars, hullVars, rectVars, composeVars, fromVars, rotorVars, fitVars, frameVars>>

NextFrom == FromParts \/ RotorAndRotate \/ Exp

SpecFrom == InitFrom /\ [][NextFrom]_vars

(***************************************************************************)
(* C4: for any scale, rotor and translation, Affine3::from(s, r, t) is the *)
(* transform that applies scale(s), then the rotation of r, then           *)
(* translate(t) to the identity: it equals                                 *)
(* compose(compose(from(s, 1, 0), from(1, r, 0)), from(1, 1, t)), which is *)
(* also what the mutators scale and translate build around the rotation.   *)
(***************************************************************************)
C4_FromIsScaleRotateTranslate ==
    op = "from" =>
        /\ lhs = rhs
        /\ lhs = Affine3_translate(
                     Affine3_compose(
                         Affine3_scale(Affine3_IDENTITY, scale),
                         Affine3_from(Scale3_IDENTITY, rotation, Vector3_IDENTITY)),
                     translation)

\* A scale with three different factors, a rotor that turns (its matrix is
\* not symmetric) and a non-zero translation: the order of the three parts
\* is visible.
C4_Witness ==
    /\ op = "from"
    /\ lhs = rhs
    /\ scale.x # scale.y /\ scale.y # scale.z /\ scale.x # scale.z
    /\ lhs.xy # lhs.yx
    /\ translation # Vector3_IDENTITY
    /\ lhs # Affine3_compose(
                 Affine3_from(Scale3_IDENTITY, rotation, Vector3_IDENTITY),
                 Affine3_from(scale, Rotor_IDENTITY, Vector3_IDENTITY))

(***************************************************************************)
(* C5 as stated: for a unit bivector and an angle theta, the linear map of *)
(* from((1,1,1), (theta * plane).exp(), 0) equals the one produced by      *)
(* IDENTITY.rotate(theta, plane).                                          *)
(***************************************************************************)
C5_RotorEqualsRotate ==
    op = "rotor_and_rotate" => lhs = rhs

(***************************************************************************)
(* C5 as amended: the transform of the rotor (theta * plane).exp() turns   *)
(* in the same plane and direction as IDENTITY.rotate, by twice the angle: *)
(* it equals IDENTITY.rotate(2 * theta, plane).                            *)
(***************************************************************************)
C5_RotorEqualsRotateTwice ==
    op = "rotor_and_rotate" =>
        lhs = Affine3_rotate(Affine3_IDENTITY, 2 * theta, plane)

\* A quarter turn: the rotor's transform is the half turn, not the quarter
\* turn that rotate builds.
C5_Witness ==
    /\ op = "rotor_and_rotate"
    /\ theta % 4 = 1
    /\ lhs = Affine3_rotate(Affine3_IDENTITY, 2 * theta, plane)
    /\ lhs # rhs
    /\ rhs # Affine3_IDENTITY

(***************************************************************************)
(* C8: BiVector3::exp of the zero bivector is exactly Rotor::IDENTITY: the *)
(* early return is taken, and no component is the result of a division by  *)
(* the zero norm.                                                          *)
(***************************************************************************)
C8_ExpOfZero ==
    (op = "exp" /\ rhs = BiVector3_new(0, 0, 0)) =>
        /\ lhs = Rotor_IDENTITY
        /\ NaN \notin {lhs.scalar, lhs.xy, lhs.yz, lhs.zx}

C8_Witness ==
    /\ op = "exp"
    /\ rhs = BiVector3_new(0, 0, 0)
    /\ lhs = Rotor_IDENTITY

(***************************************************************************)
(* SpecRotor: three rotors are drawn, then one operation is applied.       *)
(***************************************************************************)
InitRotor ==
    /\ IdleConvex
    /\ IdleHull
    /\ IdleRect
    /\ op = "init"
    /\ r1 \in Rotors
    /\ r2 \in Rotors
    /\ r3 \in Rotors
    /\ IdleCompose
    /\ IdleFrom
    /\ IdleFit
    /\ IdleFrame
    /\ lhs = Rotor_IDENTITY
    /\ rhs = Rotor_IDENTITY

\* The two bracketings of the product of r1, r2 and r3.
MulThree ==
    /\ op = "init"
    /\ op' = "mul_three"
    /\ lhs' = Rotor_mul(Rotor_mul(r1, r2), r3)
    /\ rhs' = Rotor_mul(r1, Rotor_mul(r2, r3))
    /\ UNCHANGED <<convexVars, hullVars, rectVars, composeVars, fromVars, rotorVars, fitVars, frameVars>>

\* r1 multiplied by the identity, on either side.
MulIdentity ==
    /\ op = "init"
    /\ op' = "mul_identity"
    /\ lhs' = Rotor_mul(Rotor_IDENTITY, r1)
    /\ rhs' = Rotor_mul(r1, Rotor_IDENTITY)
    /\ UNCHANGED <<convexVars, hullVars, rectVars, composeVars, fromVars, rotorVars, fitVars, frameVars>>

\* The squared norm of r1 * r2, and the product of the squared norms.
MulNormSqr ==
    /\ op = "init"
    /\ op' = "mul_norm_sqr"
    /\ lhs' = Rotor_norm_sqr(Rotor_mul(r1, r2))
    /\ rhs' = Rotor_norm_sqr(r1) * Rotor_norm_sqr(r2)
    /\ UNCHANGED <<convexVars, hullVars, rectVars, composeVars, fromVars, rotorVars, fitVars, frameVars>>

NextRotor == MulThree \/ MulIdentity \/ MulNormSqr

SpecRotor == InitRotor /\ [][NextRotor]_vars

(***************************************************************************)
(* C6: the rotor product is associative: (r1 * r2) * r3 equals             *)
(* r1 * (r2 * r3) in all four components.  (The code's product is not: its *)
(* zx component takes the bivector cross terms with the sign opposite to   *)
(* its xy and yz components.)                                              *)
(***************************************************************************)
C6_RotorMulAssociative ==
    op = "mul_three" => lhs = rhs

(***************************************************************************)
(* C7: Rotor::IDENTITY is a two-sided identity of the rotor product:       *)
(* IDENTITY * r1 = r1 and r1 * IDENTITY = r1, component by component.      *)
(***************************************************************************)
C7_RotorMulIdentity ==
    op = "mul_identity" => (lhs = r1 /\ rhs = r1)

C7_Witness ==
    /\ op = "mul_identity"
    /\ lhs = r1 /\ rhs = r1
    /\ r1.xy # 0 /\ r1.yz # 0 /\ r1.zx # 0
    /\ r1.scalar \notin {0, 1}

(***************************************************************************)
(* SpecFit: a camera and a light are drawn, then the fit is computed as in *)
(* the RedrawRequested handler.                                            *)
(***************************************************************************)
InitFit ==
    /\ IdleConvex
    /\ IdleHull
    /\ IdleRect
    /\ op = "init"
    /\ camera \in Cameras
    /\ light \in Lights
    /\ fit = NoFit
    /\ cut_corners = <<>>
    /\ reached = {}
    /\ IdleCompose
    /\ IdleFrom
    /\ IdleRotor
    /\ IdleFrame
    /\ lhs = Vector3_IDENTITY
    /\ rhs = Vector3_IDENTITY

\* let mut light_view = light.compute_view();
\* let fit = compute_camera_fit_on_light_plane(&camera.compute_model(), ...);
\* lhs is what the frame loop's translate, scale, translate make of the
\* identity with this fit.
ComputeFit ==
    /\ op = "init"
    /\ op' = "fit"
    /\ LET light_view == Light_compute_view(light)
           out == compute_camera_fit_on_light_plane(
                      Camera_compute_model(camera),
                      camera.far_z, camera.near_z, camera.width, camera.height,
                      light_view, light.near_z, light.width, light.height)
       IN  /\ fit' = [panic |-> out.panic, ret |-> out.ret]
           /\ cut_corners' = out.cut_corners
           /\ reached' = out.calls
           /\ lhs' = frame_fit_light_view(Affine3_as_f32(Affine3_IDENTITY), out.ret, TRUE, light)
    /\ UNCHANGED <<convexVars, hullVars, rectVars, composeVars, fromVars, rotorVars, frameVars, camera, light, rhs>>

\* The camera's model followed by its view, and the light's translation
\* followed by its view.
ComposeViews ==
    /\ op = "init"
    /\ op' = "views"
    /\ lhs' = Affine3_compose(Camera_compute_model(camera), Camera_view(camera))
    /\ rhs' = Affine3_compose(Affine3_translate(Affine3_IDENTITY, light.translation),
                              Light_compute_view(light))
    /\ UNCHANGED <<composeVars, fromVars, rotorVars, frameVars, rectVars, hullVars,
                   convexVars, fitVars>>

NextFit == ComputeFit \/ ComposeViews

SpecFit == InitFit /\ [][NextFit]_vars

\* The eight corners of the camera's view volume in the light's view space.
LightSpaceCorners ==
    fit_corners(Affine3_compose(Camera_compute_model(camera), Light_compute_view(light)),
                camera.far_z, camera.near_z, camera.width, camera.height)

(***************************************************************************)
(* C9: the fit is None whenever all eight transformed corners have         *)
(* z < light_near_z: no corner and no clipped edge point is written        *)
(* (cut_corners_len stays 0) and neither Rect::from_points nor             *)
(* Rect::intersect is reached.                                             *)
(***************************************************************************)
C9_AllBehindIsNoFit ==
    (op = "fit" /\ \A i \in 1..8 : LightSpaceCorners[i].z < light.near_z) =>
        /\ ~fit.panic
        /\ fit.ret = Option_None
        /\ Len(cut_corners) = 0
        /\ reached = {}

\* The whole view volume is behind the near plane, and the camera does not
\* look along the light's axis.
C9_Witness ==
    /\ op = "fit"
    /\ \A i \in 1..8 : LightSpaceCorners[i].z < light.near_z
    /\ \E i, j \in 1..4 : LightSpaceCorners[i].z # LightSpaceCorners[j].z
    /\ fit.ret = Option_None
    /\ Len(cut_corners) = 0

\* The footprint of the camera's view volume is exactly the light's frame.
FootprintIsLightFrame ==
    /\ op = "fit"
    /\ ~fit.panic
    /\ Len(cut_corners) > 0
    /\ Rect_from_points(cut_corners) = fit_light_rect(light.width, light.height)

(***************************************************************************)
(* C10 as stated: when the bounding rectangle of the projected points      *)
(* equals the light's frame exactly, the fit is the identity: scale (1, 1) *)
(* and translation (0, 0).                                                 *)
(***************************************************************************)
C10_ExactFrameIsIdentity ==
    FootprintIsLightFrame =>
        fit.ret = Option_Some(<<Vector2_new(Q(0), Q(0)), Scale2_new(Q(1), Q(1))>>)

(***************************************************************************)
(* C10 as amended: when the bounding rectangle of the projected points     *)
(* equals the light's frame exactly, the fit has scale (1, 1) and the      *)
(* translation (light_width / 2, light_height / 2), the negated minimum    *)
(* corner of the frame.                                                    *)
(***************************************************************************)
C10_ExactFrameIsUnitScale ==
    FootprintIsLightFrame =>
        fit.ret = Option_Some(<<Vector2_new(Rat(light.width, 2), Rat(light.height, 2)),
                                Scale2_new(Q(1), Q(1))>>)

C10_Witness ==
    /\ FootprintIsLightFrame
    /\ fit.ret.is_some
    /\ fit.ret.value[1][2] = Scale2_new(Q(1), Q(1))
    /\ fit.ret.value[1][1] # Vector2_new(Q(0), Q(0))

\* The smallest and the largest of a non-empty set of finite values.
Q_least(S) == CHOOSE p \in S : \A q \in S : Q_le(p, q)

Q_greatest(S) == CHOOSE p \in S : \A q \in S : Q_le(q, p)

\* The bounding rectangle of the points written to cut_corners, and the
\* light's frame, as the claims describe them.
BoundingRect ==
    LET xs == {cut_corners[k].x : k \in 1..Len(cut_corners)}
        ys == {cut_corners[k].y : k \in 1..Len(cut_corners)}
    IN  Rect_new(Vector2_new(Q_greatest(xs), Q_greatest(ys)),
                 Vector2_new(Q_least(xs), Q_least(ys)))

LightFrame ==
    Rect_new(Vector2_new(Rat(light.width, 2), Rat(light.height, 2)),
             Vector2_new(Rat(0 - light.width, 2), Rat(0 - light.height, 2)))

\* The two rectangles have no point in common.
Rect_apart(p, q) ==
    \/ Q_lt(p.max.x, q.min.x) \/ Q_lt(q.max.x, p.min.x)
    \/ Q_lt(p.max.y, q.min.y) \/ Q_lt(q.max.y, p.min.y)

InitFrame ==
    /\ IdleConvex
    /\ IdleHull
    /\ IdleRect
    /\ op = "init"
    /\ camera \in {cam \in Cameras : /\ cam.translation = Vector3_new(0, 0, 0 - 1)
                                     /\ cam.z_to_x = 0
                                     /\ cam.xz_to_y = 0}
    /\ light \in {l \in Lights : l.translation.z = 0 /\ l.near_z = 1}
    /\ fit = NoFit
    /\ cut_corners = <<>>
    /\ reached = {}
    /\ IdleFrame
    /\ IdleCompose
    /\ IdleFrom
    /\ IdleRotor
    /\ lhs = Vector3_IDENTITY
    /\ rhs = Vector3_IDENTITY

\* Event::DeviceEvent { event: DeviceEvent::Key(..) }
DeviceEventKey ==
    /\ op \in {"init", "key", "redraw"}
    /\ \E virtual_keycode \in Keys, pressed \in BOOLEAN :
           input' = InputState_set_key_pressed(input, virtual_keycode, pressed)
    /\ op' = "key"
    /\ UNCHANGED <<convexVars, hullVars, rectVars, composeVars, fromVars, rotorVars, fitVars,
                   shadow_fit, light_buffer, shadow_pass, frames, lhs, rhs>>

\* Event::MainEventsCleared
MainEventsCleared ==
    /\ op \in {"init", "key", "redraw"}
    /\ frames < MaxFrames
    /\ camera' = tick_camera(camera, input)
    /\ light' = tick_light(light, input)
    /\ shadow_fit' = tick_shadow_fit(shadow_fit, input)
    /\ input' = [input EXCEPT !.previous_keys_pressed_bitmask = input.keys_pressed_bitmask]
    /\ op' = "tick"
    /\ UNCHANGED <<convexVars, hullVars, rectVars, composeVars, fromVars, rotorVars, fit, cut_corners, reached,
                   light_buffer, shadow_pass, frames, lhs, rhs>>

\* Event::RedrawRequested(..)
RedrawRequested ==
    /\ op = "tick"
    /\ LET light_view == Light_compute_view(light)
           out == compute_camera_fit_on_light_plane(
                      Camera_compute_model(camera),
                      camera.far_z, camera.near_z, camera.width, camera.height,
                      light_view, light.near_z, light.width, light.height)
       IN  /\ fit' = [panic |-> out.panic, ret |-> out.ret]
           /\ cut_corners' = out.cut_corners
           /\ reached' = out.calls
           /\ IF out.panic
              THEN /\ op' = "panic"
                   /\ UNCHANGED <<convexVars, hullVars, rectVars, light_buffer, shadow_pass>>
              ELSE /\ op' = "redraw"
                   /\ light_buffer' =
                          frame_project_light_view(
                              frame_fit_light_view(Affine3_as_f32(light_view),
                                                   out.ret, shadow_fit, light),
                              light)
                   /\ shadow_pass' = frame_shadow_pass(out.ret)
    /\ frames' = frames + 1
    /\ UNCHANGED <<convexVars, hullVars, rectVars, composeVars, fromVars, rotorVars, camera, light, input, shadow_fit,
                   lhs, rhs>>

NextFrame == DeviceEventKey \/ MainEventsCleared \/ RedrawRequested

SpecFrame == InitFrame /\ [][NextFrame]_vars

\* The view of an un-fitted light: compute_view scaled only by the default
\* near/size projection scale.
UnfittedLightView ==
    LET sx == Rat(2 * light.near_z, light.width)
        sy == Rat(2 * light.near_z, light.height)
    IN  [xx |-> sx, yx |-> Q(0), zx |-> Q(0),
         _x |-> Q_mul(Q(0 - light.translation.x), sx),
         xy |-> Q(0), yy |-> sy, zy |-> Q(0),
         _y |-> Q_mul(Q(0 - light.translation.y), sy),
         xz |-> Q(0), yz |-> Q(0), zz |-> Q(1),
         _z |-> Q(0 - light.translation.z)]

(***************************************************************************)
(* C12: in every RedrawRequested frame where the fit is None the shadow    *)
(* pass is not recorded and the light view written to the GPU is exactly   *)
(* the un-fitted view; the uploaded view differs from the un-fitted one    *)
(* only in frames where the fit is Some and shadow_fit is enabled.         *)
(***************************************************************************)
C12_NoFitIsUnfittedAndNoShadowPass ==
    op = "redraw" =>
        /\ fit.ret = Option_None => (~shadow_pass /\ light_buffer = UnfittedLightView)
        /\ light_buffer # UnfittedLightView => (fit.ret.is_some /\ shadow_fit)

\* A frame without a fit, drawn while shadow_fit is enabled, after a frame
\* that had a fit.
C12_Witness ==
    /\ op = "redraw"
    /\ fit.ret = Option_None
    /\ shadow_fit
    /\ frames > 1
    /\ ~shadow_pass
    /\ light_buffer = UnfittedLightView
    /\ camera.z_to_x # 0

(***************************************************************************)
(* SpecRect: two rectangles are drawn, then each is intersected with the   *)
(* other.                                                                  *)
(***************************************************************************)
InitRect ==
    /\ IdleConvex
    /\ IdleHull
    /\ op = "init"
    /\ rect1 \in Rects
    /\ rect2 \in Rects
    /\ IdleCompose
    /\ IdleFrom
    /\ IdleRotor
    /\ IdleFit
    /\ IdleFrame
    /\ lhs = Option_None
    /\ rhs = Option_None

Intersect ==
    /\ op = "init"
    /\ op' = "intersect"
    /\ lhs' = Rect_intersect(rect1, rect2)
    /\ rhs' = Rect_intersect(rect2, rect1)
    /\ UNCHANGED <<convexVars, hullVars, composeVars, fromVars, rotorVars, fitVars, frameVars, rectVars>>

NextRect == Intersect

SpecRect == InitRect /\ [][NextRect]_vars

\* The two rectangles lie on opposite sides of a common line: whatever they
\* share lies on a boundary edge of each.
ShareOnlyBoundary ==
    \/ rect1.max.x = rect2.min.x \/ rect2.max.x = rect1.min.x
    \/ rect1.max.y = rect2.min.y \/ rect2.max.y = rect1.min.y

(***************************************************************************)
(* C13: Rect::intersect is commutative (a.intersect(b) and b.intersect(a)  *)
(* are both None or both the same rectangle), and it is None for two       *)
(* rectangles that share only a boundary edge or corner.                   *)
(***************************************************************************)
C13_IntersectCommutes ==
    op = "intersect" =>
        /\ lhs = rhs
        /\ ShareOnlyBoundary => lhs = Option_None

\* Two different rectangles that overlap properly, neither inside the other.
C13_Witness ==
    /\ op = "intersect"
    /\ rect1 # rect2
    /\ lhs.is_some
    /\ lhs = rhs
    /\ lhs.value[1] \notin {rect1, rect2}

(***************************************************************************)
(* C14: for all rectangles with min <= max (zero-width and zero-height     *)
(* ones included), every rectangle Rect::intersect returns as Some has     *)
(* width() > 0 and height() > 0.                                           *)
(***************************************************************************)
C14_OverlapHasPositiveSize ==
    (op = "intersect" /\ lhs.is_some) =>
        /\ Q_lt(Q(0), Rect_width(lhs.value[1]))
        /\ Q_lt(Q(0), Rect_height(lhs.value[1]))

(***************************************************************************)
(* SpecHull: a list of distinct points is drawn, then graham_scan runs on  *)
(* it; the unstable sort leaves any of the orders it can.                  *)
(***************************************************************************)
InitHull ==
    /\ IdleConvex
    /\ op = "init"
    /\ points \in PointLists \cup RowLists
    /\ indices_on_hull = [k \in 0..Len(points) - 1 |-> 0]
    /\ hull = [panic |-> FALSE, count |-> 0]
    /\ IdleCompose
    /\ IdleFrom
    /\ IdleRotor
    /\ IdleFit
    /\ IdleFrame
    /\ IdleRect
    /\ lhs = Vector3_IDENTITY
    /\ rhs = Vector3_IDENTITY

GrahamScan ==
    /\ op = "init"
    /\ op' = "graham_scan"
    /\ \E sorted \in graham_sorted(graham_swap(points, graham_min_i(points, 1, 0))) :
           \E out \in {graham_scan_sorted(sorted, indices_on_hull)} :
               /\ points' = sorted
               /\ indices_on_hull' = out.indices
               /\ hull' = [panic |-> out.panic, count |-> out.count]
    /\ UNCHANGED <<convexVars, composeVars, fromVars, rotorVars, fitVars, frameVars, rectVars, lhs, rhs>>

NextHull == GrahamScan

SpecHull == InitHull /\ [][NextHull]_vars

\* The set of the points, and the wedge of q - p and r - p: positive when
\* p, q, r turn counter-clockwise, zero when they are collinear.
PointSet == {points[k] : k \in 1..Len(points)}

Turn(p, q, r) == Vector2_wedge(Vector2_sub(q, p), Vector2_sub(r, p))

\* p lies on the boundary of the convex hull of the points: a line through
\* p and another point has all the points on one side.
OnHullBoundary(p) ==
    \E q \in PointSet \ {p} :
        \/ \A r \in PointSet : Q_le(Q(0), Turn(p, q, r))
        \/ \A r \in PointSet : Q_le(Turn(p, q, r), Q(0))

StrictlyInsideHull(p) == ~OnHullBoundary(p)

NoThreeCollinear ==
    \A p, q, r \in PointSet : (p # q /\ q # r /\ p # r) => Turn(p, q, r) # Q(0)

\* The point of the k-th returned index, counted round.
HullPoint(k) == At(points, indices_on_hull[k % hull.count])

(***************************************************************************)
(* C15: for points in convex position with no three collinear, graham_scan *)
(* returns the number of points, and the first count entries of the index  *)
(* buffer list every point exactly once, counter-clockwise, starting from  *)
(* a lowest point; the indices refer to the reordered points slice.        *)
(***************************************************************************)
C15_ConvexPositionKeepsAll ==
    (/\ op = "graham_scan"
     /\ NoThreeCollinear
     /\ \A p \in PointSet : OnHullBoundary(p)) =>
        /\ ~hull.panic
        /\ hull.count = Len(points)
        /\ {indices_on_hull[k] : k \in 0..hull.count - 1} = 0..Len(points) - 1
        /\ \A p \in PointSet : Q_le(HullPoint(0).y, p.y)
        /\ \A k \in 0..hull.count - 1 :
               Q_lt(Q(0), Turn(HullPoint(k), HullPoint(k + 1), HullPoint(k + 2)))

\* Four or more points in convex position, the first of them not the
\* leftmost of the lowest.
C15_Witness ==
    /\ op = "graham_scan"
    /\ NoThreeCollinear
    /\ \A p \in PointSet : OnHullBoundary(p)
    /\ Len(points) >= 4
    /\ hull.count = Len(points)
    /\ \E p \in PointSet : p.y = points[1].y /\ Q_lt(p.x, points[1].x)

(***************************************************************************)
(* C16: for every input of 3 or more distinct points and every order the   *)
(* sort may leave among equal-angle points, no point strictly inside the   *)
(* convex hull of the input is among the indices graham_scan returns.      *)
(***************************************************************************)
C16_NoInteriorPointReturned ==
    (op = "graham_scan" /\ ~hull.panic) =>
        \A k \in 0..hull.count - 1 : ~StrictlyInsideHull(HullPoint(k))

\* An input with a point strictly inside the hull and two points at one
\* angle from the pivot.
C16_Witness ==
    /\ op = "graham_scan"
    /\ ~hull.panic
    /\ \E p \in PointSet : StrictlyInsideHull(p)
    /\ \E p, q \in PointSet \ {points[1]} :
           p # q /\ graham_compare(p, q, points[1]) = 0
    /\ hull.count < Len(points)

\* p lies between q and r on the segment from q to r.
Between(p, q, r) ==
    /\ Turn(p, q, r) = Q(0)
    /\ Q_lt(Q_add(Q_mul(Q_sub(q.x, p.x), Q_sub(r.x, p.x)),
                   Q_mul(Q_sub(q.y, p.y), Q_sub(r.y, p.y))), Q(0))

(***************************************************************************)
(* C17: graham_scan removes collinear boundary points: no returned point   *)
(* lies on the segment between two other input points on the hull          *)
(* boundary, so a run of collinear points gives only its two endpoints.    *)
(***************************************************************************)
C17_CollinearRunsCollapse ==
    (op = "graham_scan" /\ ~hull.panic) =>
        \A k \in 0..hull.count - 1 :
            ~\E q, r \in PointSet :
                /\ OnHullBoundary(q)
                /\ OnHullBoundary(r)
                /\ Between(HullPoint(k), q, r)

(***************************************************************************)
(* SpecConvex: two counter-clockwise convex polygons are drawn, then both  *)
(* functions intersect them; the no-alloc one is given a slice of          *)
(* |P| + |Q| points.                                                       *)
(***************************************************************************)
InitConvex ==
    /\ op = "init"
    /\ convex_p \in Polygons({0})
    /\ convex_q \in Polygons((0 - MaxShift)..MaxShift)
    /\ convex_r = <<>>
    /\ no_alloc = [panic |-> FALSE, len |-> 0, convex_r |-> <<>>]
    /\ IdleCompose
    /\ IdleFrom
    /\ IdleRotor
    /\ IdleFit
    /\ IdleFrame
    /\ IdleRect
    /\ IdleHull
    /\ lhs = Vector3_IDENTITY
    /\ rhs = Vector3_IDENTITY

\* A slice no call can fill: a turn of the loop writes at most twice.
LargeBuffer(cp, cq) == [k \in 1..4 * (Len(cp) + Len(cq)) |-> Vector2_IDENTITY]

ConvexIntersect ==
    /\ op = "init"
    /\ op' = "convex_intersect"
    /\ convex_r' = convex_intersect_alloc(convex_p, convex_q)
    /\ no_alloc' = convex_intersect_no_alloc(convex_p, convex_q,
                       [k \in 1..Len(convex_p) + Len(convex_q) |-> Vector2_IDENTITY])
    /\ rhs' = convex_intersect_no_alloc(convex_p, convex_q, LargeBuffer(convex_p, convex_q))
    /\ UNCHANGED <<composeVars, fromVars, rotorVars, fitVars, frameVars, rectVars, hullVars,
                   convex_p, convex_q, lhs>>

NextConvex == ConvexIntersect

SpecConvex == InitConvex /\ [][NextConvex]_vars

\* The squares of C18.
SquareP == <<Vector2_new(Q(0 - 1), Q(0 - 1)), Vector2_new(Q(1), Q(0 - 1)),
             Vector2_new(Q(1), Q(1)), Vector2_new(Q(0 - 1), Q(1))>>

SquareQ == <<Vector2_new(Q(0), Q(0 - 1)), Vector2_new(Q(2), Q(0 - 1)),
             Vector2_new(Q(2), Q(1)), Vector2_new(Q(0), Q(1))>>

\* The rectangle of C18 and the lists that are it from another start.
RectangleR == <<Vector2_new(Q(0), Q(0 - 1)), Vector2_new(Q(1), Q(0 - 1)),
                Vector2_new(Q(1), Q(1)), Vector2_new(Q(0), Q(1))>>

IsRectangleR(poly) == \E k \in 0..3 : poly = PolygonFrom(RectangleR, k, 0, 0)

(***************************************************************************)
(* C18: intersecting the counter-clockwise square                          *)
(* P = [(-1,-1),(1,-1),(1,1),(-1,1)] with its translated copy              *)
(* Q = [(0,-1),(2,-1),(2,1),(0,1)] gives exactly the four vertices         *)
(* (0,-1),(1,-1),(1,1),(0,1) in cyclic order, with no repeated and no      *)
(* extra vertex, from both functions.                                      *)
(***************************************************************************)
C18_SquaresGiveRectangle ==
    (op = "convex_intersect" /\ convex_p = SquareP /\ convex_q = SquareQ) =>
        /\ IsRectangleR(convex_r)
        /\ ~no_alloc.panic
        /\ no_alloc.len = 4
        /\ IsRectangleR(SubSeq(no_alloc.convex_r, 1, 4))

(***************************************************************************)
(* C19: the camera's view is the inverse of its model: for a camera whose  *)
(* forward vector is up to date with z_to_x, compose(compute_model(), V)   *)
(* is Affine3::IDENTITY, V being the view of to_raw before its projection  *)
(* scale; and compose(translate(light.translation), Light::compute_view()) *)
(* is IDENTITY.                                                            *)
(***************************************************************************)
C19_ViewInvertsModel ==
    (op = "views" /\ camera = Camera_update_forward(camera)) =>
        /\ lhs = Affine3_IDENTITY
        /\ rhs = Affine3_IDENTITY

\* A camera that is moved, turned and pitched, and a light that is moved.
C19_Witness ==
    /\ op = "views"
    /\ camera = Camera_update_forward(camera)
    /\ camera.z_to_x % 4 = 1
    /\ camera.xz_to_y # 0
    /\ camera.translation.x # 0
    /\ camera.translation.z # 0
    /\ light.translation.z # 0
    /\ lhs = Affine3_IDENTITY
    /\ rhs = Affine3_IDENTITY

(***************************************************************************)
(* SpecCut: compute_camera_fit_on_light_plane is given any camera model    *)
(* whose z is an affine function of the frustum's corners: a is the camera *)
(* model, b the light view.                                                *)
(***************************************************************************)
InitCut ==
    /\ op = "init"
    /\ a \in {[Affine3_IDENTITY EXCEPT !.xz = q[1], !.yz = q[2], !.zz = q[3], !._z = q[4]] :
               q \in Coords \X Coords \X Coords \X Coords}
    /\ b = Affine3_IDENTITY
    /\ c = Affine3_IDENTITY
    /\ v = Vector3_IDENTITY
    /\ camera \in {cam \in Cameras : /\ cam.translation = Vector3_IDENTITY
                                     /\ cam.z_to_x = 0
                                     /\ cam.xz_to_y = 0}
    /\ light \in {l \in Lights : l.translation = Vector3_IDENTITY}
    /\ fit = NoFit
    /\ cut_corners = <<>>
    /\ reached = {}
    /\ IdleFrom
    /\ IdleRotor
    /\ IdleFrame
    /\ IdleRect
    /\ IdleHull
    /\ IdleConvex
    /\ lhs = Vector3_IDENTITY
    /\ rhs = Vector3_IDENTITY

ComputeFitOf ==
    /\ op = "init"
    /\ op' = "cut"
    /\ \E out \in {compute_camera_fit_on_light_plane(
                       a, camera.far_z, camera.near_z, camera.width, camera.height,
                       b, light.near_z, light.width, light.height)} :
           /\ fit' = [panic |-> out.panic, ret |-> out.ret]
           /\ cut_corners' = out.cut_corners
           /\ reached' = out.calls
    /\ UNCHANGED <<composeVars, fromVars, rotorVars, frameVars, rectVars, hullVars,
                   convexVars, camera, light, lhs, rhs>>

NextCut == ComputeFitOf

SpecCut == InitCut /\ [][NextCut]_vars

(***************************************************************************)
(* C20: the number of projected/clipped points never exceeds               *)
(* MAX_CORNERS = 10, for every camera model, light view and frustum        *)
(* parameters: cut_corners_len <= 10 at every write, so the fixed-size     *)
(* cut_corners array is never indexed out of bounds.                       *)
(***************************************************************************)
C20_AtMostTenCorners ==
    op = "cut" => (~fit.panic /\ Len(cut_corners) <= MAX_CORNERS)

\* A near plane that cuts the frustum askew and gives ten points.
C20_Witness ==
    /\ op = "cut"
    /\ ~fit.panic
    /\ Len(cut_corners) = MAX_CORNERS
    /\ a.xz # 0
    /\ a.yz # 0
    /\ a.zz # 0

(***************************************************************************)
(* C21: graham_scan, given any list of 3 or more distinct points (three or *)
(* more of them collinear with the pivot included) and an index buffer of  *)
(* the length of the list, completes without panicking: the stack index    *)
(* prev_indices_last_i is never decremented below 0 and every read and     *)
(* write of points and indices_on_hull is in bounds.                       *)
(***************************************************************************)
C21_GrahamScanNeverPanics ==
    op = "graham_scan" => ~hull.panic

\* The edges of a polygon, as pairs of its vertices, and its vertices.
Edges(poly) == {<<poly[k], poly[(k % Len(poly)) + 1]>> : k \in 1..Len(poly)}

Vertices(poly) == {poly[k] : k \in 1..Len(poly)}

\* x is inside or on the boundary of the counter-clockwise convex polygon,
\* and strictly inside it.
InsideOrOn(x, poly) == \A e \in Edges(poly) : Q_le(Q(0), Turn(e[1], e[2], x))

StrictlyInside(x, poly) == \A e \in Edges(poly) : Q_lt(Q(0), Turn(e[1], e[2], x))

\* x is on the segment e, its ends included.
OnSegment(x, e) ==
    /\ Turn(e[1], e[2], x) = Q(0)
    /\ Q_le(Q_add(Q_mul(Q_sub(e[1].x, x.x), Q_sub(e[2].x, x.x)),
                   Q_mul(Q_sub(e[1].y, x.y), Q_sub(e[2].y, x.y))), Q(0))

\* The segments e and f cross at one point inside both.
Cross(e, f) ==
    /\ Q_lt(Q_mul(Turn(e[1], e[2], f[1]), Turn(e[1], e[2], f[2])), Q(0))
    /\ Q_lt(Q_mul(Turn(f[1], f[2], e[1]), Turn(f[1], f[2], e[2])), Q(0))

\* The point where the lines of e and f meet.
CrossPoint(e, f) ==
    LET de == Vector2_sub(e[2], e[1])
        df == Vector2_sub(f[2], f[1])
        t == Q_div(Vector2_wedge(Vector2_sub(f[1], e[1]), df), Vector2_wedge(de, df))
    IN  Vector2_new(Q_add(e[1].x, Q_mul(de.x, t)), Q_add(e[1].y, Q_mul(de.y, t)))

\* No edge of P is parallel to an edge of Q and no vertex of one polygon
\* lies on an edge of the other.
GeneralPosition ==
    /\ \A e \in Edges(convex_p), f \in Edges(convex_q) :
           Vector2_wedge(Vector2_sub(e[2], e[1]), Vector2_sub(f[2], f[1])) # Q(0)
    /\ \A x \in Vertices(convex_p), f \in Edges(convex_q) : ~OnSegment(x, f)
    /\ \A x \in Vertices(convex_q), e \in Edges(convex_p) : ~OnSegment(x, e)

BoundariesCross == \E e \in Edges(convex_p), f \in Edges(convex_q) : Cross(e, f)

\* The vertices of the intersection of P and Q in general position.
IntersectionVertices ==
    {x \in Vertices(convex_p) : StrictlyInside(x, convex_q)}
    \cup {x \in Vertices(convex_q) : StrictlyInside(x, convex_p)}
    \cup {CrossPoint(ef[1], ef[2]) :
             ef \in {ef \in Edges(convex_p) \X Edges(convex_q) : Cross(ef[1], ef[2])}}

\* The list names each of its points once, and every other point of it is
\* to the left of the edge from each point to the next: a convex polygon
\* listed counter-clockwise.
CyclicOrder(poly) ==
    /\ Cardinality(Vertices(poly)) = Len(poly)
    /\ \A e \in Edges(poly) :
           \A x \in Vertices(poly) \ {e[1], e[2]} : Q_lt(Q(0), Turn(e[1], e[2], x))

(***************************************************************************)
(* C22: for two counter-clockwise convex polygons in general position      *)
(* whose boundaries cross, every vertex convex_intersect_alloc emits lies  *)
(* inside or on the boundary of both, and the emitted sequence is the      *)
(* vertex list of the intersection in cyclic order.                        *)
(***************************************************************************)
C22_IntersectionOfCrossingPolygons ==
    (op = "convex_intersect" /\ GeneralPosition /\ BoundariesCross) =>
        /\ \A k \in 1..Len(convex_r) :
               InsideOrOn(convex_r[k], convex_p) /\ InsideOrOn(convex_r[k], convex_q)
        /\ Vertices(convex_r) = IntersectionVertices
        /\ CyclicOrder(convex_r)

\* Crossing polygons in general position whose intersection has vertices of
\* P, vertices of Q and crossing points.
C22_Witness ==
    /\ op = "convex_intersect"
    /\ GeneralPosition
    /\ BoundariesCross
    /\ Len(convex_r) >= 4
    /\ \E x \in Vertices(convex_r) : x \in Vertices(convex_p)
    /\ \E x \in Vertices(convex_r) : x \in Vertices(convex_q)
    /\ \E x \in Vertices(convex_r) : x \notin Vertices(convex_p) \cup Vertices(convex_q)

\* The two loops stand at the same place with the same output.
SameLocals(la, ln) ==
    /\ ~ln.panic
    /\ \A k \in DOMAIN convex_start(convex_p, convex_q) : la[k] = ln[k]
    /\ ln.convex_r_len = Len(la.convex_r)
    /\ SubSeq(ln.convex_r, 1, ln.convex_r_len) = la.convex_r

\* The two loops agree now and after each of the n turns left.
RECURSIVE SameTurns(_, _, _)
SameTurns(la, ln, n) ==
    /\ SameLocals(la, ln)
    /\ \/ n = 0
       \/ la.broke
       \/ SameTurns(convex_alloc_step(convex_p, convex_q, la),
                    convex_no_alloc_step(convex_p, convex_q, ln), n - 1)

(***************************************************************************)
(* C23: convex_intersect_alloc and convex_intersect_no_alloc are the same  *)
(* algorithm: with a large enough output slice, the count returned is the  *)
(* length of the Vec, the first count entries of the slice are the Vec     *)
(* element by element, and after every number of turns of the loop the two *)
(* have made the same advances and emitted the same vertices.              *)
(***************************************************************************)
C23_NoAllocIsAlloc ==
    op = "convex_intersect" =>
        /\ ~rhs.panic
        /\ rhs.len = Len(convex_r)
        /\ SubSeq(rhs.convex_r, 1, rhs.len) = convex_r
        /\ SameTurns(convex_alloc_start(convex_p, convex_q),
                     convex_no_alloc_start(convex_p, convex_q, LargeBuffer(convex_p, convex_q)),
                     2 * (Len(convex_p) + Len(convex_q)))

\* A call that emits more vertices than the polygons have, crossing points
\* and vertices of both among them.
C23_Witness ==
    /\ op = "convex_intersect"
    /\ rhs.len = Len(convex_r)
    /\ rhs.len >= 5
    /\ \E k \in 1..rhs.len : rhs.convex_r[k] \in Vertices(convex_p)
    /\ \E k \in 1..rhs.len : rhs.convex_r[k] \in Vertices(convex_q)
    /\ \E k \in 1..rhs.len : rhs.convex_r[k] \notin Vertices(convex_p) \cup Vertices(convex_q)

\* Vector3::apply on rationals, for a point of the light's plane.
Plane_apply(point, m) ==
    Vector2_new(Q_add(Q_add(Q_mul(point.x, m.xx), Q_mul(point.y, m.yx)), m._x),
                Q_add(Q_add(Q_mul(point.x, m.xy), Q_mul(point.y, m.yy)), m._y))

\* The rectangle the fit is computed from, when there is one.
Overlap == Rect_intersect(BoundingRect, LightFrame).value[1]

(***************************************************************************)
(* C24: the fit makes the light's frame exactly cover the overlap: for a   *)
(* fit Some((t, s)) from an overlap of positive width and height, the      *)
(* frame loop's translate((t.x, t.y, 0)), scale((s.x, s.y, 1)),            *)
(* translate((-light_width/2, -light_height/2, 0)) maps overlap.min to     *)
(* (-light_width/2, -light_height/2) and overlap.max to                    *)
(* (+light_width/2, +light_height/2).                                      *)
(***************************************************************************)
C24_FitCoversOverlap ==
    (/\ op = "fit"
     /\ fit.ret.is_some
     /\ Q_lt(Q(0), Rect_width(Overlap))
     /\ Q_lt(Q(0), Rect_height(Overlap))) =>
        /\ Plane_apply(Overlap.min, lhs) = LightFrame.min
        /\ Plane_apply(Overlap.max, lhs) = LightFrame.max

\* An overlap of positive size that is not the light's frame, so that the
\* fit moves and stretches.
C24_Witness ==
    /\ op = "fit"
    /\ fit.ret.is_some
    /\ Q_lt(Q(0), Rect_width(Overlap))
    /\ Q_lt(Q(0), Rect_height(Overlap))
    /\ Overlap.min # LightFrame.min
    /\ Overlap.max # LightFrame.max
    /\ lhs.xx # Q(1)
    /\ lhs.yy # Q(1)

(***************************************************************************)
(* The in-place operations of Affine3: a.translate(v), a.scale(scale) and  *)
(* a.rotate(theta, plane), each beside the composition of a with the       *)
(* operation's own transform.                                              *)
(***************************************************************************)
InitOps ==
    /\ op = "init"
    /\ a \in Affines
    /\ b = Affine3_IDENTITY
    /\ c = Affine3_IDENTITY
    /\ v \in Vectors
    /\ scale \in Scales
    /\ rotation = Rotor_IDENTITY
    /\ translation = Vector3_IDENTITY
    /\ theta \in Angles
    /\ plane \in UnitPlanes
    /\ IdleRotor
    /\ IdleFit
    /\ IdleFrame
    /\ IdleRect
    /\ IdleHull
    /\ IdleConvex
    /\ lhs = Affine3_IDENTITY
    /\ rhs = Affine3_IDENTITY

\* The transform of a translation by t, and of a scale by s.
TranslationOf(t) == [Affine3_IDENTITY EXCEPT !._x = t.x, !._y = t.y, !._z = t.z]

DiagonalOf(s) == [Affine3_IDENTITY EXCEPT !.xx = s.x, !.yy = s.y, !.zz = s.z]

Translate ==
    /\ op = "init"
    /\ op' = "translate"
    /\ lhs' = Affine3_translate(a, v)
    /\ rhs' = Affine3_compose(a, TranslationOf(v))
    /\ UNCHANGED <<convexVars, hullVars, rectVars, composeVars, fromVars, rotorVars, fitVars, frameVars>>

Scale ==
    /\ op = "init"
    /\ op' = "scale"
    /\ lhs' = Affine3_scale(a, scale)
    /\ rhs' = Affine3_compose(a, DiagonalOf(scale))
    /\ UNCHANGED <<convexVars, hullVars, rectVars, composeVars, fromVars, rotorVars, fitVars, frameVars>>

Rotate ==
    /\ op = "init"
    /\ op' = "rotate"
    /\ lhs' = Affine3_rotate(a, theta, plane)
    /\ rhs' = Affine3_compose(a, Affine3_rotate(Affine3_IDENTITY, theta, plane))
    /\ UNCHANGED <<convexVars, hullVars, rectVars, composeVars, fromVars, rotorVars, fitVars, frameVars>>

NextOps == Translate \/ Scale \/ Rotate

SpecOps == InitOps /\ [][NextOps]_vars

(***************************************************************************)
(* C25: the in-place operations compose on the "after" side:               *)
(* a.translate(v) is compose(a, T(v)) and changes only the three           *)
(* translation fields; a.scale(s) is compose(a, diag(s)), which multiplies *)
(* the accumulated translation too; a.rotate(theta, b) is                  *)
(* compose(a, IDENTITY.rotate(theta, b)).                                  *)
(***************************************************************************)
C25_OperationsPostCompose ==
    /\ op \in {"translate", "scale", "rotate"} => lhs = rhs
    /\ op = "translate" => \A k \in DOMAIN a \ {"_x", "_y", "_z"} : lhs[k] = a[k]
    /\ op = "scale" =>
           /\ lhs._x = a._x * scale.x
           /\ lhs._y = a._y * scale.y
           /\ lhs._z = a._z * scale.z

\* A scale that changes a non-zero translation, by different factors.
C25_Witness ==
    /\ op = "scale"
    /\ lhs = rhs
    /\ a._x # 0
    /\ lhs._x # a._x
    /\ scale.x # scale.y
    /\ a.xy # 0

(***************************************************************************)
(* C26: the squared norm is multiplicative over the rotor product:         *)
(* norm_sqr(r1 * r2) = norm_sqr(r1) * norm_sqr(r2) for all rotors with     *)
(* bounded integer components.                                             *)
(***************************************************************************)
C26_NormSqrMultiplicative ==
    op = "mul_norm_sqr" => lhs = rhs

\* A rational that is neither an infinity nor NaN.
Q_is_finite(p) == p[2] # 0

(***************************************************************************)
(* C27: whenever compute_camera_fit_on_light_plane returns Some((t, s)),   *)
(* the overlap rectangle it divides by has strictly positive width and     *)
(* height, so both components of s are finite, also when the projected     *)
(* points are degenerate (one point, or all sharing one x or one y).       *)
(***************************************************************************)
C27_FitScaleIsFinite ==
    (op = "fit" /\ fit.ret.is_some) =>
        /\ Q_lt(Q(0), Rect_width(Overlap))
        /\ Q_lt(Q(0), Rect_height(Overlap))
        /\ Q_is_finite(fit.ret.value[1][2].x)
        /\ Q_is_finite(fit.ret.value[1][2].y)

\* The edges the loop stands on meet at one point: they are not parallel
\* and neither has both ends strictly on one side of the other.
EdgesMeet(l) ==
    /\ Vector2_wedge(l.dp, l.dq) # Q(0)
    /\ Q_le(Q_mul(Turn(l.old_p, l.p, l.old_q), Turn(l.old_p, l.p, l.q)), Q(0))
    /\ Q_le(Q_mul(Turn(l.old_q, l.q, l.old_p), Turn(l.old_q, l.q, l.p)), Q(0))

\* Over the n turns left of a loop with step function selected by alloc:
\* the flag changes and the output grows only in a turn whose edges meet,
\* the output is empty while the flag is unset, and the first vertex
\* written is the point where the edges of that turn meet.
RECURSIVE FlagFollowsHits(_, _, _)
FlagFollowsHits(l, alloc, n) ==
    \/ n = 0
    \/ l.broke
    \/ LET next == IF alloc THEN convex_alloc_step(convex_p, convex_q, l)
                    ELSE convex_no_alloc_step(convex_p, convex_q, l)
           len == IF alloc THEN Len(l.convex_r) ELSE l.convex_r_len
           next_len == IF alloc THEN Len(next.convex_r) ELSE next.convex_r_len
       IN  /\ next.inside # l.inside => EdgesMeet(l)
           /\ l.inside = " " => len = 0
           /\ (len = 0 /\ next_len > 0) =>
                  /\ EdgesMeet(l)
                  /\ next.convex_r[1] = CrossPoint(<<l.old_p, l.p>>, <<l.old_q, l.q>>)
           /\ FlagFollowsHits(next, alloc, n - 1)

\* No edge of P has a point in common with an edge of Q.
NoEdgesTouch ==
    \A e \in Edges(convex_p), f \in Edges(convex_q) :
        /\ ~Cross(e, f)
        /\ ~OnSegment(e[1], f) /\ ~OnSegment(e[2], f)
        /\ ~OnSegment(f[1], e) /\ ~OnSegment(f[2], e)

(***************************************************************************)
(* C28: in convex_intersect_alloc and convex_intersect_no_alloc the inside *)
(* flag starts unset and is set only when an edge-edge intersection with   *)
(* t and s in [0, 1] is found; if no pair of visited edges intersects (the *)
(* polygons are disjoint, or one lies strictly inside the other) the       *)
(* result is empty, and the first emitted vertex is always an              *)
(* edge-intersection point rather than an original vertex.                 *)
(***************************************************************************)
C28_FirstVertexIsEdgeIntersection ==
    op = "convex_intersect" =>
        /\ convex_start(convex_p, convex_q).inside = " "
        /\ FlagFollowsHits(convex_alloc_start(convex_p, convex_q), TRUE,
                           2 * (Len(convex_p) + Len(convex_q)))
        /\ FlagFollowsHits(convex_no_alloc_start(convex_p, convex_q,
                                                 LargeBuffer(convex_p, convex_q)), FALSE,
                           2 * (Len(convex_p) + Len(convex_q)))
        /\ NoEdgesTouch => (Len(convex_r) = 0 /\ rhs.len = 0)
        /\ Len(convex_r) > 0 =>
               \E e \in Edges(convex_p), f \in Edges(convex_q) :
                   OnSegment(convex_r[1], e) /\ OnSegment(convex_r[1], f)

\* A polygon strictly inside the large square: no edges touch and the
\* result is empty.
C28_Witness ==
    /\ op = "convex_intersect"
    /\ NoEdgesTouch
    /\ \A x \in Vertices(convex_q) : StrictlyInside(x, convex_p)
    /\ Len(convex_r) = 0
    /\ rhs.len = 0

(***************************************************************************)
(* C29: for all convex counter-clockwise P and Q, the number of vertices   *)
(* convex_intersect_no_alloc writes never exceeds |P| + |Q| over its at    *)
(* most 2 * (|P| + |Q|) turns, and no vertex is emitted twice in a row, so *)
(* an output slice of length |P| + |Q| is never overrun.                   *)
(***************************************************************************)
C29_OutputFitsBuffer ==
    op = "convex_intersect" =>
        /\ ~no_alloc.panic
        /\ rhs.len <= Len(convex_p) + Len(convex_q)
        /\ \A k \in 1..rhs.len - 1 : rhs.convex_r[k] # rhs.convex_r[k + 1]

\* What a step of the frame loop does to the input state and the flag.
\* A tick flips shadow_fit exactly when Space is down and was not down at
\* the tick before (previous_keys_pressed_bitmask is the bitmask of that
\* tick, or empty before the first), and leaves previous equal to current;
\* a key event changes at most the bit of one key and nothing else; a
\* redraw changes neither.
InputStep ==
    /\ op' = "tick" =>
           /\ (shadow_fit' # shadow_fit) <=>
                  /\ "Space" \in input.keys_pressed_bitmask
                  /\ "Space" \notin input.previous_keys_pressed_bitmask
           /\ input'.keys_pressed_bitmask = input.keys_pressed_bitmask
           /\ input'.previous_keys_pressed_bitmask = input'.keys_pressed_bitmask
    /\ op' = "key" =>
           /\ shadow_fit' = shadow_fit
           /\ input'.previous_keys_pressed_bitmask = input.previous_keys_pressed_bitmask
           /\ \E key \in Keys :
                  \A other \in Keys \ {key} :
                      other \in input'.keys_pressed_bitmask
                          <=> other \in input.keys_pressed_bitmask
    /\ op' \in {"redraw", "panic"} => (shadow_fit' = shadow_fit /\ input' = input)

(***************************************************************************)
(* C30: shadow_fit toggles once per Space press: over any interleaving of  *)
(* key press/release events and MainEventsCleared ticks, shadow_fit flips  *)
(* in a tick iff Space is pressed at that tick and was not pressed at the  *)
(* previous tick, so holding Space across many ticks flips it once;        *)
(* previous_keys_pressed_bitmask equals keys_pressed_bitmask after every   *)
(* tick; set_key_pressed changes only the bit of the given key.            *)
(***************************************************************************)
C30_ShadowFitTogglesOnPress == [][InputStep]_vars

\* The second tick with Space held since before the first: the flag was
\* flipped by the first tick and not by the second.
C30_Witness ==
    /\ op = "tick"
    /\ frames >= 1
    /\ shadow_fit
    /\ "Space" \in input.keys_pressed_bitmask
    /\ "Space" \in input.previous_keys_pressed_bitmask
    /\ fit.ret.is_some

=============================================================================
